---- MODULE Spec2Model ----
(***************************************************************************)
(* State-machine model of the canvas-engine scene layer: the CanvasEngine  *)
(* registry with its frame loop and the CanvasObject position, movement,   *)
(* collision and lifecycle operations.                                     *)
(*                                                                         *)
(* Numbers: JavaScript numbers are modelled as exact rationals <<n, d>>    *)
(* (d > 0, lowest terms).  Math.hypot is modelled exactly; the inputs of   *)
(* setMoveToPosition are drawn from points whose distance is rational.     *)
(* Time is performance.now() in milliseconds.                              *)
(***************************************************************************)
EXTENDS Integers, Sequences, FiniteSets, TLC

VARIABLES
    objs,       \* every CanvasObject ever constructed, by handle 1..Len(objs)
    objects,    \* CanvasEngine.#objects: Map id -> handle, in insertion order
    camera,     \* CanvasEngine.#camera (a handle)
    now,        \* performance.now(), milliseconds
    lastTime,   \* CanvasEngine.#lastTime
    rafId,      \* CanvasEngine.#rafId: the scheduled frame request (-1: none)
    sceneAttached, \* CanvasEngine.#scene is in the document
    pre,        \* objs and objects as they were before the last step
    op,         \* the operation that made the last step, with its arguments
    ret,        \* what that operation returned (a handle, Null, or a value)
    calls,      \* host callbacks invoked by the last step, in order
    frames,     \* the window's animation frame callbacks: [next, queue]
    mouse       \* CanvasEngine.#mouse: [x, y]; seen: a mousemove was handled;
                \* listening: the document holds the mousemove listener

vars == <<objs, objects, camera, now, lastTime, rafId, sceneAttached, pre, op, ret,
          calls, frames, mouse>>

-----------------------------------------------------------------------------
(* Bounds of the model *)

MaxObjs == 2          \* CanvasObjects constructed besides the camera
MaxSeconds == 3       \* the clock stops advancing here (seconds)
ShutdownObjs == 3     \* CanvasObjects of the shutdown scenarios

Ids == {"a", "b"}                 \* ids the host passes to createObject
Tags == {"hit", "coin"}           \* CSS classes used as collision tags
CollideTags == {"hit"}            \* the tag of the collision scenarios
Points == {<<0, 0>>, <<30, 40>>, <<100, 0>>}   \* points the host passes
Speeds == {-50, 0, 50}            \* speeds the host passes (units / second)
ClockSteps == {500, 1000}             \* how far the clock moves between steps (ms)
MoveIds == {"a"}                  \* ids of the movement scenarios
ChildIds == {"a"}                 \* ids the host passes to createChild
UnregisteredIds == {"c"}          \* ids of children that no createObject uses
CameraPoints == {<<0, 0>>, <<10, 0>>, <<0, 10>>}  \* points the camera is moved to
RegPoints == {<<100, 0>>}         \* points of the registry scenarios
SpecPoints == {<<0, 0>>, <<100, 0>>}  \* points of the collision scenarios
SpecSpeeds == {50}
Handlers == {"h1"}                \* host callbacks (they only record the call)
\* destroy callbacks of the shutdown scenarios: "h1" does nothing; "destroyA" is
\*   (self) => { const o = engine.getCanvasObject("a");
\*               if (o && o !== self) o.destroy() }
ShutdownHandlers == {"h1", "destroyA"}
\* destroy callbacks of the lifetime scenarios: "markSelf" notes on the object
\* whether it was called before,
\*   (self) => self.setVariable("k", self.getVariable("k") === undefined
\*                                       ? "v1" : "v2")
LifetimeHandlers == {"markSelf", "destroyA"}
VictimId == "a"
ShutdownIds == {"a", "b", "c"}    \* ids of the shutdown scenarios
SubscribeHandlers == {"h1", "h2"} \* callbacks of the subscription scenarios
TaggedIds == {"b"}                \* ids of the objects they only tag
ViewHalfW == 50                   \* half the width of the browser viewport
ViewHalfH == 50                   \* half its height
PointerXs == {0, ViewHalfW, 2 * ViewHalfW}    \* clientX of the mouse events
PointerYs == {0, ViewHalfH, 2 * ViewHalfH}    \* clientY of the mouse events
Keys == {"k", "j"}                \* variable keys
CanvasIds == {"app", "missing"}   \* ids the host passes to new CanvasEngine
DocumentIds == {"app"}            \* ids of the elements the document holds
Values == {"v1", "v2"}            \* variable values
FunctionNames == {"f", "g"}       \* names the host passes to createFunction
Directions == {0, 90, 180, 270}   \* directions the host passes (degrees)
Distances == {0, 100}             \* distances the host passes
\* the points the host passes to getAngleBetweenTwoPoints
AnglePoints == {<<0, 0>>, <<100, 0>>, <<-100, 0>>, <<0, 100>>, <<0, -100>>}

-----------------------------------------------------------------------------
(* Program constants *)

MsPerSec == 1000      \* update(): (performance.now() - startTime) / 1000
NoRaf == -1           \* #rafId = -1

Null == 0                         \* undefined / null reference
Undefined == "undefined"          \* Map.get of a missing key
NoMovement == [null |-> TRUE]     \* #movement = null
NoCallback == "null"              \* #onDestroy = null, no handler for a tag
TheElement == 1                   \* the element getElementById finds
TheEngine == 1                    \* the object new CanvasEngine evaluates to

-----------------------------------------------------------------------------
(* Exact rational arithmetic for JavaScript numbers *)

Abs(n) == IF n < 0 THEN -n ELSE n

RECURSIVE GCD(_, _)
GCD(a, b) == IF b = 0 THEN a ELSE GCD(b, a % b)

RNorm(n, d) ==
    LET g == GCD(Abs(n), Abs(d))
        s == IF d < 0 THEN -1 ELSE 1
    IN  IF n = 0 THEN <<0, 1>> ELSE <<(s * n) \div g, (s * d) \div g>>

R(n) == <<n, 1>>
RAdd(p, q) == RNorm(p[1] * q[2] + q[1] * p[2], p[2] * q[2])
RSub(p, q) == RNorm(p[1] * q[2] - q[1] * p[2], p[2] * q[2])
RMul(p, q) == RNorm(p[1] * q[1], p[2] * q[2])
RDiv(p, q) == RNorm(p[1] * q[2], p[2] * q[1])
RLeq(p, q) == p[1] * q[2] <= q[1] * p[2]
RLt(p, q) == p[1] * q[2] < q[1] * p[2]
RIsZero(p) == p[1] = 0
RAbs(p) == <<Abs(p[1]), p[2]>>

RECURSIVE ISqrtFrom(_, _)
ISqrtFrom(n, x) ==
    LET y == (x + n \div x) \div 2
    IN  IF y >= x THEN x ELSE ISqrtFrom(n, y)

ISqrt(n) == IF n = 0 THEN 0 ELSE ISqrtFrom(n, n)
IsSquare(n) == ISqrt(n) * ISqrt(n) = n

\* Math.hypot(dx, dy) for rationals whose hypotenuse is rational
HypotSq(dx, dy) == RAdd(RMul(dx, dx), RMul(dy, dy))
HypotExact(dx, dy) == IsSquare(HypotSq(dx, dy)[1]) /\ IsSquare(HypotSq(dx, dy)[2])
Hypot(dx, dy) == RNorm(ISqrt(HypotSq(dx, dy)[1]), ISqrt(HypotSq(dx, dy)[2]))

SeqToSet(q) == {q[i] : i \in 1..Len(q)}

Point(x, y) == [x |-> x, y |-> y]
Origin == Point(R(0), R(0))

-----------------------------------------------------------------------------
(* The #objects Map: a sequence of <<id, handle>> entries in insertion order *)

RECURSIVE MapIndex(_, _)
MapIndex(m, id) ==
    IF m = <<>> THEN 0
    ELSE IF m[Len(m)][1] = id THEN Len(m)
    ELSE MapIndex(SubSeq(m, 1, Len(m) - 1), id)

MapHas(m, id) == MapIndex(m, id) # 0
MapGet(m, id) == IF MapHas(m, id) THEN m[MapIndex(m, id)][2] ELSE Null
MapSet(m, id, h) ==
    IF MapHas(m, id) THEN [m EXCEPT ![MapIndex(m, id)] = <<id, h>>]
    ELSE Append(m, <<id, h>>)
MapDelete(m, id) ==
    IF MapHas(m, id)
    THEN SubSeq(m, 1, MapIndex(m, id) - 1) \o SubSeq(m, MapIndex(m, id) + 1, Len(m))
    ELSE m
MapValues(m) == {m[i][2] : i \in 1..Len(m)}
MapKeys(m) == {m[i][1] : i \in 1..Len(m)}

-----------------------------------------------------------------------------
(* CanvasObject *)

Handles == 1..Len(objs)

\* a CSS transform that translates by pct percent of the element's size plus
\* (x, y) pixels, +y down: translate(calc(pct% + x px), calc(pct% + y px))
Translate(pct, x, y) == [pct |-> pct, x |-> x, y |-> y]
Untransformed == Translate(0, R(0), R(0))    \* no transform in the style
Centred == Translate(-50, R(0), R(0))        \* translate(-50%, -50%)

\* new CanvasObject(id, document, engine, parent, isChild, isCamera)
NewCanvasObject(id, parent, isChild, isCamera) ==
    [ id |-> id,
      parent |-> parent,
      isChild |-> isChild,
      isCamera |-> isCamera,
      pos |-> Origin,
      transform |-> Centred,              \* #container.style.transform
      parentTransform |-> Untransformed,  \* #container.parentElement's
      movement |-> NoMovement,
      collisionHandlers |-> [t \in Tags |-> NoCallback],
      size |-> [w |-> 0, h |-> 0],
      classes |-> <<>>,
      observed |-> {},
      vars |-> [k \in Keys |-> Undefined],
      functions |-> [n \in FunctionNames |-> NoCallback],
      onDestroy |-> NoCallback,
      attached |-> TRUE,
      \* history, not a field: destroy() ran while the engine held this object
      destroyedRegistered |-> FALSE,
      \* history, not a field: the <<tag, handler>> pairs a later handler replaced
      replaced |-> {},
      \* history, not a field: the deltaTime (ms) update() was given in all
      \* since setMoveToPosition last started a movement
      fedMs |-> 0 ]

\* an #applyPosition that moves the scene the way the camera moves
ApplyPosition_PanWithCamera(os, o, x, y) ==
    IF os[o].isCamera
    THEN [os EXCEPT ![o].pos = Point(x, y),
                    ![o].parentTransform = Translate(-50, x, RSub(R(0), y))]
    ELSE [os EXCEPT ![o].pos = Point(x, y),
                    ![o].transform = Translate(-50, x, RSub(R(0), y))]

\* #applyPosition(x, y): the logical position, and the transform of the
\* scene (for the camera) or of the object's own container
ApplyPosition(os, o, x, y) ==
    IF os[o].isCamera
    THEN [os EXCEPT ![o].pos = Point(x, y),
                    ![o].parentTransform = Translate(-50, RSub(R(0), x), y)]
    ELSE [os EXCEPT ![o].pos = Point(x, y),
                    ![o].transform = Translate(-50, x, RSub(R(0), y))]

\* a setPosition that leaves the active movement in place
SetPositionOf_KeepsMovement(os, o, x, y) == ApplyPosition(os, o, x, y)

\* setPosition(x, y)
SetPositionOf(os, o, x, y) ==
    ApplyPosition([os EXCEPT ![o].movement = NoMovement], o, x, y)

\* the elapsed seconds update() computes at clock t
Elapsed(m, t) == RDiv(R(t - m.startTime), R(MsPerSec))

\* an update that arrives only once elapsed > duration
UpdateOf_StrictArrival(os, o, t) ==
    LET m == os[o].movement IN
    IF m = NoMovement THEN os
    ELSE IF RLt(m.duration, Elapsed(m, t))
    THEN [SetPositionOf(os, o, m.targetX, m.targetY) EXCEPT ![o].movement = NoMovement]
    ELSE LET tt == RDiv(Elapsed(m, t), m.duration)
             x == RAdd(m.startX, RMul(RSub(m.targetX, m.startX), tt))
             y == RAdd(m.startY, RMul(RSub(m.targetY, m.startY), tt))
         IN  ApplyPosition(os, o, x, y)

\* an update that interpolates both axes with the x axis' progress in units
UpdateOf_SharedAxis(os, o, t) ==
    LET m == os[o].movement IN
    IF m = NoMovement THEN os
    ELSE IF RLeq(m.duration, Elapsed(m, t))
    THEN [SetPositionOf(os, o, m.targetX, m.targetY) EXCEPT ![o].movement = NoMovement]
    ELSE LET tt == RDiv(Elapsed(m, t), m.duration)
             x == RAdd(m.startX, RMul(RSub(m.targetX, m.startX), tt))
             y == RAdd(m.startY, RMul(RSub(m.targetX, m.startX), tt))
         IN  ApplyPosition(os, o, x, y)

\* an update without the arrival branch: it interpolates for ever
UpdateOf_Overshoots(os, o, t) ==
    LET m == os[o].movement IN
    IF m = NoMovement THEN os
    ELSE LET tt == RDiv(Elapsed(m, t), m.duration)
             x == RAdd(m.startX, RMul(RSub(m.targetX, m.startX), tt))
             y == RAdd(m.startY, RMul(RSub(m.targetY, m.startY), tt))
         IN  ApplyPosition(os, o, x, y)

\* update(deltaTime) at clock t
UpdateOf(os, o, t) ==
    LET m == os[o].movement IN
    IF m = NoMovement THEN os
    ELSE IF RLeq(m.duration, Elapsed(m, t))
    THEN [SetPositionOf(os, o, m.targetX, m.targetY) EXCEPT ![o].movement = NoMovement]
    ELSE LET tt == RDiv(Elapsed(m, t), m.duration)
             x == RAdd(m.startX, RMul(RSub(m.targetX, m.startX), tt))
             y == RAdd(m.startY, RMul(RSub(m.targetY, m.startY), tt))
         IN  ApplyPosition(os, o, x, y)

\* a setMoveToPosition that keeps the start and start time of a movement in flight
SetMoveToPositionOf_KeepsTiming(os, o, x, y, speed, t) ==
    IF speed <= 0 THEN os
    ELSE LET dist == Hypot(RSub(x, os[o].pos.x), RSub(y, os[o].pos.y))
             old == os[o].movement
         IN
         IF RIsZero(dist) THEN os
         ELSE [os EXCEPT ![o].movement =
                  [ startX |-> IF old = NoMovement THEN os[o].pos.x ELSE old.startX,
                    startY |-> IF old = NoMovement THEN os[o].pos.y ELSE old.startY,
                    targetX |-> x,
                    targetY |-> y,
                    speed |-> speed,
                    startTime |-> IF old = NoMovement THEN t ELSE old.startTime,
                    duration |-> RDiv(dist, R(speed)) ]]

\* a setMoveToPosition without the speed and distance checks
SetMoveToPositionOf_Unchecked(os, o, x, y, speed, t) ==
    LET dist == Hypot(RSub(x, os[o].pos.x), RSub(y, os[o].pos.y)) IN
    [os EXCEPT ![o].movement =
        [ startX |-> os[o].pos.x,
          startY |-> os[o].pos.y,
          targetX |-> x,
          targetY |-> y,
          speed |-> speed,
          startTime |-> t,
          duration |-> RDiv(dist, R(speed)) ]]

\* setMoveToPosition(x, y, speed) at clock t
SetMoveToPositionOf(os, o, x, y, speed, t) ==
    IF speed <= 0 THEN os
    ELSE LET dist == Hypot(RSub(x, os[o].pos.x), RSub(y, os[o].pos.y)) IN
         IF RIsZero(dist) THEN os
         ELSE [os EXCEPT ![o].movement =
                  [ startX |-> os[o].pos.x,
                    startY |-> os[o].pos.y,
                    targetX |-> x,
                    targetY |-> y,
                    speed |-> speed,
                    startTime |-> t,
                    duration |-> RDiv(dist, R(speed)) ]]

\* a setStopMovement that finishes the movement at its target
SetStopMovementOf_Snaps(os, o) ==
    IF os[o].movement = NoMovement THEN os
    ELSE SetPositionOf(os, o, os[o].movement.targetX, os[o].movement.targetY)

\* setStopMovement()
SetStopMovementOf(os, o) == [os EXCEPT ![o].movement = NoMovement]

-----------------------------------------------------------------------------
(* The doubles of setMoveInDirection.  Math.PI is pi rounded to a double, *)
(* so Math.cos and Math.sin of a multiple of Math.PI / 2 are 0 only up to  *)
(* that rounding: Math.cos(Math.PI / 2) is 6.123233995736766e-17, called   *)
(* Kappa here, and Math.sin(-Math.PI) is -2 * Kappa.  A double of this     *)
(* computation is [v, k]: the rational v plus a residue of k * Kappa       *)
(* (k # 0: the double is not v).                                          *)

KappaScaled == <<5515, 10000>>    \* Kappa * 2^53 (0.55153...)

Exact(q) == [v |-> q, k |-> R(0)]

\* (90 - direction) * (Math.PI / 180) for a multiple of 90, in quarter turns
QuarterTurns(direction) == (90 - direction) \div 90

\* Math.cos(rad)
MathCos(q) ==
    CASE q = 0 -> Exact(R(1))
      [] q \in {1, -1} -> [v |-> R(0), k |-> R(1)]
      [] q \in {2, -2} -> Exact(R(-1))

\* Math.sin(rad)
MathSin(q) ==
    CASE q = 0 -> Exact(R(0))
      [] q = 1 -> Exact(R(1))
      [] q = -1 -> Exact(R(-1))
      [] q = 2 -> [v |-> R(0), k |-> R(2)]
      [] q = -2 -> [v |-> R(0), k |-> R(-2)]

\* the largest power of two that is <= q, for q > 0
RECURSIVE Pow2Up(_, _)
Pow2Up(q, p) == IF RLeq(RMul(p, R(2)), q) THEN Pow2Up(q, RMul(p, R(2))) ELSE p

RECURSIVE Pow2Down(_, _)
Pow2Down(q, p) == IF RLeq(p, q) THEN p ELSE Pow2Down(q, RDiv(p, R(2)))

Pow2Floor(q) == IF RLeq(R(1), q) THEN Pow2Up(q, R(1)) ELSE Pow2Down(q, R(1))

\* f * d for a double f and a rational d
FMul(f, d) == [v |-> RMul(f.v, d), k |-> RMul(f.k, d)]

\* x + f rounded to a double: next to x # 0 the residue is lost when it is
\* below half the spacing of the doubles there (2^-53 times the power of two
\* below |x|, and half of that under a power of two)
FAdd(x, f) ==
    LET v == RAdd(x, f.v)
        p == Pow2Floor(RAbs(v))
        below == p = RAbs(v) /\ (RLt(f.k, R(0)) = RLt(R(0), v))
        half == IF below THEN RDiv(p, R(2)) ELSE p
    IN  IF RIsZero(f.k) THEN Exact(v)
        ELSE IF RIsZero(v) THEN [v |-> v, k |-> f.k]
        ELSE IF RLt(RMul(RAbs(f.k), KappaScaled), half) THEN Exact(v)
        ELSE [v |-> v, k |-> f.k]

\* the deltas for which Math.atan2 is modelled: along an axis, or both zero
OnAxis(dx, dy) == RIsZero(dx) \/ RIsZero(dy)

\* Math.atan2(y, x) * (180 / Math.PI) for OnAxis(x, y): the four products
\* are the doubles 0, 90, 180 and -90, and atan2(0, 0) is 0
MathAtan2Deg(y, x) ==
    CASE RIsZero(y) /\ ~RLt(x, R(0)) -> 0
      [] RIsZero(y) /\ RLt(x, R(0)) -> 180
      [] RIsZero(x) /\ RLt(R(0), y) -> 90
      [] RIsZero(x) /\ RLt(y, R(0)) -> -90

\* utils.getAngleBetweenTwoPoints(x1, y1, x2, y2)
GetAngleBetweenTwoPointsOf(x1, y1, x2, y2) ==
    LET deg == MathAtan2Deg(RSub(y2, y1), RSub(x2, x1))
    IN  (deg + 90 + 360) % 360

\* utils.getAngleBetweenTwoPoints(fromX, fromY, toX, toY) of the earlier
\* engine: deltaY is the difference of the xs, deltaX that of the ys
LegacyGetAngleBetweenTwoPointsOf(fromX, fromY, toX, toY) ==
    LET deltaY == RSub(toX, fromX)
        deltaX == RSub(toY, fromY)
        angleInDegrees == MathAtan2Deg(deltaY, deltaX)
    IN  IF angleInDegrees < 0 THEN angleInDegrees + 360 ELSE angleInDegrees

\* the tx, ty of setMoveInDirection
DirectionTarget(pos, direction, distance) ==
    [x |-> FAdd(pos.x, FMul(MathCos(QuarterTurns(direction)), R(distance))),
     y |-> FAdd(pos.y, FMul(MathSin(QuarterTurns(direction)), R(distance)))]

\* setMoveToPosition(tx, ty, speed) for doubles tx, ty at clock t; the residue
\* of a target is far below the rounding of Math.hypot
SetMoveToDoubleOf(os, o, tx, ty, speed, t) ==
    IF RIsZero(tx.k) /\ RIsZero(ty.k)
    THEN SetMoveToPositionOf(os, o, tx.v, ty.v, speed, t)
    ELSE IF speed <= 0 THEN os
    ELSE LET dist == Hypot(RSub(tx.v, os[o].pos.x), RSub(ty.v, os[o].pos.y)) IN
         [os EXCEPT ![o].movement =
             [ startX |-> os[o].pos.x,
               startY |-> os[o].pos.y,
               targetX |-> tx.v,
               targetY |-> ty.v,
               residueX |-> tx.k,
               residueY |-> ty.k,
               speed |-> speed,
               startTime |-> t,
               duration |-> RDiv(dist, R(speed)) ]]

\* setMoveInDirection(direction, distance, speed) at clock t
SetMoveInDirectionOf(os, o, direction, distance, speed, t) ==
    LET target == DirectionTarget(os[o].pos, direction, distance)
    IN  SetMoveToDoubleOf(os, o, target.x, target.y, speed, t)

-----------------------------------------------------------------------------
(* The window's animation frame callbacks.  h is a record of the heap    *)
(* with a frames field.                                                    *)

\* requestAnimationFrame(loop), loop closing over its object and its
\* timeTillDestination; the id it returns is h.frames.next
RequestAnimationFrame(h, o, timeTillDestination) ==
    [h EXCEPT !.frames.queue = Append(@, [id |-> h.frames.next, o |-> o,
                                          timeTillDestination |-> timeTillDestination]),
              !.frames.next = @ + 1]

CancelAnimationFrame(h, id) ==
    [h EXCEPT !.frames.queue = SelectSeq(@, LAMBDA e : e.id # id)]

\* the entry of the callback loop of CanvasEngine.#startLoop
EngineLoop(id) == [id |-> id, o |-> Null, timeTillDestination |-> Null]

-----------------------------------------------------------------------------
(* CanvasEngine *)

Init ==
    /\ objs = <<NewCanvasObject("cam", Null, FALSE, TRUE)>>
    /\ objects = <<>>
    /\ camera = 1
    /\ now = 0
    /\ lastTime = 0
    /\ rafId = 1
    /\ sceneAttached = TRUE
    /\ pre = [objs |-> <<>>, objects |-> <<>>]
    /\ op = [name |-> "constructor"]
    /\ ret = Null
    /\ calls = <<>>
    /\ frames = [next |-> 2, queue |-> <<EngineLoop(1)>>]
    /\ mouse = [x |-> 0, y |-> 0, seen |-> FALSE, listening |-> TRUE]

\* the program before new CanvasEngine(canvasId, document) has run
NotConstructed ==
    /\ objs = <<>>
    /\ objects = <<>>
    /\ camera = Null
    /\ now = 0
    /\ lastTime = 0
    /\ rafId = NoRaf
    /\ sceneAttached = FALSE
    /\ pre = [objs |-> <<>>, objects |-> <<>>]
    /\ op = [name |-> "start"]
    /\ ret = Null
    /\ calls = <<>>
    /\ frames = [next |-> 1, queue |-> <<>>]
    /\ mouse = [x |-> 0, y |-> 0, seen |-> FALSE, listening |-> FALSE]

\* document.getElementById(canvasId)
GetElementById(canvasId) == IF canvasId \in DocumentIds THEN TheElement ELSE Null

\* a constructor that reports the missing element and goes on to build the
\* camera and return the engine
Construct_Alerts(canvasId) ==
    /\ camera = Null
    /\ objs' = <<NewCanvasObject("cam", Null, FALSE, TRUE)>>
    /\ camera' = 1
    /\ sceneAttached' = (GetElementById(canvasId) # Null)
    /\ mouse' = [mouse EXCEPT !.listening = TRUE]
    /\ frames' = RequestAnimationFrame([frames |-> frames], Null, Null).frames
    /\ rafId' = frames.next
    /\ ret' = TheEngine
    /\ pre' = [objs |-> objs, objects |-> objects]
    /\ op' = [name |-> "new CanvasEngine", canvasId |-> canvasId]
    /\ calls' = <<>>
    /\ UNCHANGED <<objects, now, lastTime>>

\* new CanvasEngine(canvasId, document): ret is the engine, or Null when the
\* constructor threw
Construct(canvasId) ==
    /\ camera = Null
    /\ IF GetElementById(canvasId) = Null
       THEN /\ ret' = Null
            /\ UNCHANGED <<objs, camera, sceneAttached, mouse, frames, rafId>>
       ELSE /\ sceneAttached' = TRUE
            /\ mouse' = [mouse EXCEPT !.listening = TRUE]
            /\ objs' = <<NewCanvasObject("cam", Null, FALSE, TRUE)>>
            /\ camera' = 1
            /\ frames' = RequestAnimationFrame([frames |-> frames], Null, Null).frames
            /\ rafId' = frames.next
            /\ ret' = TheEngine
    /\ pre' = [objs |-> objs, objects |-> objects]
    /\ op' = [name |-> "new CanvasEngine", canvasId |-> canvasId]
    /\ calls' = <<>>
    /\ UNCHANGED <<objects, now, lastTime>>

\* the clock advances between steps of the program
Advance(d) ==
    /\ now + d <= MaxSeconds * MsPerSec
    /\ now' = now + d
    /\ pre' = [objs |-> objs, objects |-> objects]
    /\ op' = [name |-> "advance", d |-> d]
    /\ ret' = Null
    /\ calls' = <<>>
    /\ UNCHANGED <<objs, objects, camera, mouse, frames, lastTime, rafId, sceneAttached>>

\* a createObject that constructs and registers a new object for a known id
CreateObject_Overwrites(id) ==
    /\ Len(objs) < MaxObjs + 1
    /\ objs' = Append(objs, NewCanvasObject(id, Null, FALSE, FALSE))
    /\ objects' = MapSet(objects, id, Len(objs) + 1)
    /\ ret' = Len(objs) + 1
    /\ pre' = [objs |-> objs, objects |-> objects]
    /\ op' = [name |-> "createObject", id |-> id]
    /\ calls' = <<>>
    /\ UNCHANGED <<camera, mouse, frames, now, lastTime, rafId, sceneAttached>>

\* createObject(id), while fewer than n objects were constructed
CreateObjectUpTo(id, n) ==
    /\ IF MapHas(objects, id)
       THEN /\ ret' = MapGet(objects, id)
            /\ UNCHANGED <<objs, objects>>
       ELSE /\ Len(objs) < n + 1
            /\ objs' = Append(objs, NewCanvasObject(id, Null, FALSE, FALSE))
            /\ objects' = MapSet(objects, id, Len(objs) + 1)
            /\ ret' = Len(objs) + 1
    /\ pre' = [objs |-> objs, objects |-> objects]
    /\ op' = [name |-> "createObject", id |-> id]
    /\ calls' = <<>>
    /\ UNCHANGED <<camera, mouse, frames, now, lastTime, rafId, sceneAttached>>

\* createObject(id)
CreateObject(id) == CreateObjectUpTo(id, MaxObjs)

\* a getCanvasObject that registers a new object for an unknown id
GetCanvasObject_Creates(id) ==
    /\ IF MapHas(objects, id)
       THEN /\ ret' = MapGet(objects, id)
            /\ UNCHANGED <<objs, objects>>
       ELSE /\ Len(objs) < MaxObjs + 1
            /\ objs' = Append(objs, NewCanvasObject(id, Null, FALSE, FALSE))
            /\ objects' = MapSet(objects, id, Len(objs) + 1)
            /\ ret' = Len(objs) + 1
    /\ pre' = [objs |-> objs, objects |-> objects]
    /\ op' = [name |-> "getCanvasObject", id |-> id]
    /\ calls' = <<>>
    /\ UNCHANGED <<camera, mouse, frames, now, lastTime, rafId, sceneAttached>>

\* getCanvasObject(id)
GetCanvasObject(id) ==
    /\ ret' = MapGet(objects, id)
    /\ pre' = [objs |-> objs, objects |-> objects]
    /\ op' = [name |-> "getCanvasObject", id |-> id]
    /\ calls' = <<>>
    /\ UNCHANGED <<objs, objects, camera, mouse, frames, now, lastTime, rafId, sceneAttached>>

\* a getCameraObject that makes a camera for every call
GetCameraObject_Fresh ==
    /\ Len(objs) < MaxObjs + 1
    /\ objs' = Append(objs, NewCanvasObject("cam", Null, FALSE, TRUE))
    /\ ret' = Len(objs) + 1
    /\ pre' = [objs |-> objs, objects |-> objects]
    /\ op' = [name |-> "getCameraObject"]
    /\ calls' = <<>>
    /\ UNCHANGED <<objects, camera, mouse, frames, now, lastTime, rafId, sceneAttached>>

\* getCameraObject()
GetCameraObject ==
    /\ ret' = camera
    /\ pre' = [objs |-> objs, objects |-> objects]
    /\ op' = [name |-> "getCameraObject"]
    /\ calls' = <<>>
    /\ UNCHANGED <<objs, objects, camera, mouse, frames, now, lastTime, rafId, sceneAttached>>

\* this.#container.getBoundingClientRect(): the container fills the viewport
ContainerRect ==
    [left |-> 0, top |-> 0, width |-> 2 * ViewHalfW, height |-> 2 * ViewHalfH]

\* the mousemove listener of the constructor
MouseMove(clientX, clientY) ==
    /\ mouse.listening
    /\ mouse' = [x |-> clientX - ContainerRect.left,
                 y |-> clientY - ContainerRect.top,
                 seen |-> TRUE,
                 listening |-> TRUE]
    /\ pre' = [objs |-> objs, objects |-> objects]
    /\ op' = [name |-> "mousemove", clientX |-> clientX, clientY |-> clientY]
    /\ ret' = Null
    /\ calls' = <<>>
    /\ UNCHANGED <<objs, objects, camera, frames, now, lastTime, rafId, sceneAttached>>

\* a getMousePosition that measures from the centre of the container, +Y up
GetMousePositionOf_FromCentre(m) ==
    [x |-> m.x - ContainerRect.width \div 2, y |-> ContainerRect.height \div 2 - m.y]

\* { ...this.#mouse }
GetMousePositionOf(m) == [x |-> m.x, y |-> m.y]

\* getMousePosition()
GetMousePosition ==
    /\ ret' = GetMousePositionOf(mouse)
    /\ pre' = [objs |-> objs, objects |-> objects]
    /\ op' = [name |-> "getMousePosition"]
    /\ calls' = <<>>
    /\ UNCHANGED <<objs, objects, camera, mouse, frames, now, lastTime, rafId,
                   sceneAttached>>

\* the objects.forEach((obj) => obj.update(dt)) of one frame
RECURSIVE UpdateAll(_, _, _)
UpdateAll(os, m, t) ==
    IF m = <<>> THEN os
    ELSE UpdateAll(UpdateOf(os, Head(m)[2], t), Tail(m), t)

\* one run of the requestAnimationFrame callback of #startLoop; the request
\* it makes for the next frame is kept under the same id
Frame ==
    /\ EngineLoop(rafId) \in SeqToSet(frames.queue)
    /\ objs' = LET os == UpdateAll(objs, objects, now)
               IN  [o \in DOMAIN os |->
                       IF o \in MapValues(objects) /\ objs[o].movement # NoMovement
                       THEN [os[o] EXCEPT !.fedMs = @ + (now - lastTime)]
                       ELSE os[o]]
    /\ lastTime' = now
    /\ rafId' = rafId
    /\ pre' = [objs |-> objs, objects |-> objects]
    /\ op' = [name |-> "frame", dt |-> RDiv(R(now - lastTime), R(MsPerSec)),
              visited |-> [i \in 1..Len(objects) |-> objects[i][2]], nested |-> {}]
    /\ ret' = Null
    /\ calls' = <<>>
    /\ UNCHANGED <<objects, camera, mouse, frames, now, sceneAttached>>

-----------------------------------------------------------------------------
(* CanvasObject operations called by the host on any object it holds *)

SetPosition(o, p) ==
    /\ objs' = SetPositionOf(objs, o, R(p[1]), R(p[2]))
    /\ pre' = [objs |-> objs, objects |-> objects]
    /\ op' = [name |-> "setPosition", o |-> o, x |-> R(p[1]), y |-> R(p[2])]
    /\ ret' = o
    /\ calls' = <<>>
    /\ UNCHANGED <<objects, camera, mouse, frames, now, lastTime, rafId, sceneAttached>>

SetMoveToPosition(o, p, speed) ==
    /\ HypotExact(RSub(R(p[1]), objs[o].pos.x), RSub(R(p[2]), objs[o].pos.y))
    /\ objs' = LET os == SetMoveToPositionOf(objs, o, R(p[1]), R(p[2]), speed, now)
               IN  IF speed > 0 /\ objs[o].pos # Point(R(p[1]), R(p[2]))
                   THEN [os EXCEPT ![o].fedMs = 0] ELSE os
    /\ pre' = [objs |-> objs, objects |-> objects]
    /\ op' = [name |-> "setMoveToPosition", o |-> o, x |-> R(p[1]), y |-> R(p[2]),
              speed |-> speed]
    /\ ret' = o
    /\ calls' = <<>>
    /\ UNCHANGED <<objects, camera, mouse, frames, now, lastTime, rafId, sceneAttached>>

\* a createChild that enters the child in the engine's directory
CreateChild_Registers(o, id) ==
    /\ Len(objs) < MaxObjs + 1
    /\ objs' = Append(objs, NewCanvasObject(id, o, TRUE, FALSE))
    /\ objects' = MapSet(objects, id, Len(objs) + 1)
    /\ ret' = Len(objs) + 1
    /\ pre' = [objs |-> objs, objects |-> objects]
    /\ op' = [name |-> "createChild", o |-> o, id |-> id]
    /\ calls' = <<>>
    /\ UNCHANGED <<camera, mouse, frames, now, lastTime, rafId, sceneAttached>>

\* createChild(id)
CreateChild(o, id) ==
    /\ Len(objs) < MaxObjs + 1
    /\ objs' = Append(objs, NewCanvasObject(id, o, TRUE, FALSE))
    /\ ret' = Len(objs) + 1
    /\ pre' = [objs |-> objs, objects |-> objects]
    /\ op' = [name |-> "createChild", o |-> o, id |-> id]
    /\ calls' = <<>>
    /\ UNCHANGED <<objects, camera, mouse, frames, now, lastTime, rafId, sceneAttached>>

SetMoveInDirection(o, direction, distance, speed) ==
    /\ objs' = SetMoveInDirectionOf(objs, o, direction, distance, speed, now)
    /\ pre' = [objs |-> objs, objects |-> objects]
    /\ op' = [name |-> "setMoveInDirection", o |-> o, direction |-> direction,
              distance |-> distance, speed |-> speed,
              target |-> DirectionTarget(objs[o].pos, direction, distance)]
    /\ ret' = o
    /\ calls' = <<>>
    /\ UNCHANGED <<objects, camera, mouse, frames, now, lastTime, rafId, sceneAttached>>

\* utils.getAngleBetweenTwoPoints(x1, y1, x2, y2), called by the host
GetAngleBetweenTwoPoints(p1, p2) ==
    /\ OnAxis(R(p2[1] - p1[1]), R(p2[2] - p1[2]))
    /\ ret' = GetAngleBetweenTwoPointsOf(R(p1[1]), R(p1[2]), R(p2[1]), R(p2[2]))
    /\ pre' = [objs |-> objs, objects |-> objects]
    /\ op' = [name |-> "getAngleBetweenTwoPoints",
              from |-> Point(R(p1[1]), R(p1[2])), to |-> Point(R(p2[1]), R(p2[2]))]
    /\ calls' = <<>>
    /\ UNCHANGED <<objs, objects, camera, mouse, frames, now, lastTime, rafId,
                   sceneAttached>>

\* utils.getAngleBetweenTwoPoints(fromX, fromY, toX, toY) of the earlier engine
LegacyGetAngleBetweenTwoPoints(p1, p2) ==
    /\ OnAxis(R(p2[1] - p1[1]), R(p2[2] - p1[2]))
    /\ ret' = LegacyGetAngleBetweenTwoPointsOf(R(p1[1]), R(p1[2]), R(p2[1]), R(p2[2]))
    /\ pre' = [objs |-> objs, objects |-> objects]
    /\ op' = [name |-> "legacyGetAngleBetweenTwoPoints",
              from |-> Point(R(p1[1]), R(p1[2])), to |-> Point(R(p2[1]), R(p2[2]))]
    /\ calls' = <<>>
    /\ UNCHANGED <<objs, objects, camera, mouse, frames, now, lastTime, rafId,
                   sceneAttached>>

\* o.setMoveInDirection(utils.getAngleBetweenTwoPoints(x, y, p.x, p.y),
\* distance, speed) with (x, y) the position of o
MoveInDirectionOfPoint(o, p, distance, speed) ==
    LET to == Point(R(p[1]), R(p[2]))
        direction == GetAngleBetweenTwoPointsOf(objs[o].pos.x, objs[o].pos.y,
                                                to.x, to.y)
    IN  /\ OnAxis(RSub(to.x, objs[o].pos.x), RSub(to.y, objs[o].pos.y))
        /\ objs' = SetMoveInDirectionOf(objs, o, direction, distance, speed, now)
        /\ pre' = [objs |-> objs, objects |-> objects]
        /\ op' = [name |-> "moveInDirectionOfPoint", o |-> o, to |-> to,
                  direction |-> direction, distance |-> distance, speed |-> speed,
                  target |-> DirectionTarget(objs[o].pos, direction, distance)]
        /\ ret' = o
        /\ calls' = <<>>
        /\ UNCHANGED <<objects, camera, mouse, frames, now, lastTime, rafId,
                       sceneAttached>>

SetStopMovement(o) ==
    /\ objs' = SetStopMovementOf(objs, o)
    /\ pre' = [objs |-> objs, objects |-> objects]
    /\ op' = [name |-> "setStopMovement", o |-> o]
    /\ ret' = o
    /\ calls' = <<>>
    /\ UNCHANGED <<objects, camera, mouse, frames, now, lastTime, rafId, sceneAttached>>

-----------------------------------------------------------------------------

(* Collision observer: each object owns an IntersectionObserver with the   *)
(* default root, the browser viewport.  The browser reports an observed    *)
(* target when it is first observed and whenever its intersection with the *)
(* viewport changes.  observed holds [target, last]: last is what was last *)
(* reported ("new": nothing yet).                                          *)

\* classList.add(className)
ClassAdd(q, c) == IF c \in SeqToSet(q) THEN q ELSE Append(q, c)

\* the element is connected to the document
RECURSIVE InDocument(_, _, _)
InDocument(os, scene, o) ==
    /\ os[o].attached
    /\ IF os[o].parent = Null THEN scene ELSE InDocument(os, scene, os[o].parent)

\* centre of the element in scene coordinates
RECURSIVE ScenePos(_, _)
ScenePos(os, o) ==
    IF os[o].parent = Null THEN os[o].pos
    ELSE Point(RAdd(ScenePos(os, os[o].parent).x, os[o].pos.x),
               RAdd(ScenePos(os, os[o].parent).y, os[o].pos.y))

\* entry.isIntersecting: the target's box meets the viewport; the camera
\* translates the scene by its negated position
IsIntersecting(os, scene, cam, b) ==
    /\ InDocument(os, scene, b)
    /\ RLeq(RAbs(RSub(ScenePos(os, b).x, os[cam].pos.x)),
            RAdd(R(ViewHalfW), <<os[b].size.w, 2>>))
    /\ RLeq(RAbs(RSub(ScenePos(os, b).y, os[cam].pos.y)),
            RAdd(R(ViewHalfH), <<os[b].size.h, 2>>))

\* document.querySelectorAll(`.${targetClass}`), as handles of CanvasObjects
QuerySelectorAll(os, scene, c) ==
    {b \in DOMAIN os : InDocument(os, scene, b) /\ c \in SeqToSet(os[b].classes)}

\* IntersectionObserver.observe(el)
Observe(obs, targets) ==
    obs \cup {[target |-> b, last |-> "new"] :
                 b \in {t \in targets : ~\E e \in obs : e.target = t}}

\* addClass(className)
AddClassOf(os, o, c) == [os EXCEPT ![o].classes = ClassAdd(@, c)]

\* an onCollisionTrigger that keeps the handler a tag already has
OnCollisionTriggerOf_KeepsFirst(os, scene, o, c, fn) ==
    LET os1 == AddClassOf(os, o, c)
        os2 == [os1 EXCEPT ![o].collisionHandlers[c] =
                   IF @ = NoCallback THEN fn ELSE @]
    IN  [os2 EXCEPT ![o].observed =
            Observe(@, QuerySelectorAll(os2, scene, c) \ {o})]

\* onCollisionTrigger(targetClass, callback)
OnCollisionTriggerOf(os, scene, o, c, fn) ==
    LET os1 == AddClassOf(os, o, c)
        os2 == [os1 EXCEPT ![o].collisionHandlers[c] = fn]
    IN  [os2 EXCEPT ![o].observed =
            Observe(@, QuerySelectorAll(os2, scene, c) \ {o})]

\* the handler calls the observer callback makes for one intersecting entry:
\* one per class of the target that this object has a handler for
RECURSIVE EntryCalls(_, _, _, _, _)
EntryCalls(os, m, a, b, cls) ==
    IF cls = <<>> THEN <<>>
    ELSE LET fn == os[a].collisionHandlers[Head(cls)]
             other == MapGet(m, os[b].id)
             rest == EntryCalls(os, m, a, b, Tail(cls))
         IN  IF Head(cls) \in Tags /\ fn # NoCallback /\ other # Null
             THEN <<[kind |-> "collision", self |-> a, other |-> other,
                     tag |-> Head(cls), fn |-> fn]>> \o rest
             ELSE rest

\* what the browser would report for an observed target now
Report(os, scene, cam, b) == IF IsIntersecting(os, scene, cam, b) THEN "in" ELSE "out"

\* the targets with a change to report, in order of handle
Changed(os, scene, cam, a) ==
    {e.target : e \in {e \in os[a].observed : e.last # Report(os, scene, cam, e.target)}}

RECURSIVE CallbackCalls(_, _, _, _, _, _)
CallbackCalls(os, m, scene, cam, a, targets) ==
    IF targets = {} THEN <<>>
    ELSE LET b == CHOOSE t \in targets : \A u \in targets : t <= u
             rest == CallbackCalls(os, m, scene, cam, a, targets \ {b})
         IN  IF IsIntersecting(os, scene, cam, b)
             THEN EntryCalls(os, m, a, b, os[b].classes) \o rest
             ELSE rest

\* a setVariable that starts the store afresh for every value
SetVariableOf_Resets(os, o, k, v) ==
    [os EXCEPT ![o].vars = [j \in Keys |-> IF j = k THEN v ELSE Undefined]]

\* this.#vars.set(key, value)
SetVariableOf(os, o, k, v) == [os EXCEPT ![o].vars[k] = v]

\* this.#vars.get(key)
GetVariableOf(os, o, k) == os[o].vars[k]

\* the heap a step of the host starts from: calls made so far, the objects
\* a callback destroyed (nested), the entries a forEach visited
StepHeap == [objs |-> objs, objects |-> objects, calls |-> <<>>, nested |-> {},
             visited |-> <<>>]

RECURSIVE DestroyOf(_, _)

\* this.#onDestroy?.(this): the host function cb called with self
DestroyCallback(h, cb, self) ==
    LET h1 == [h EXCEPT !.calls = Append(@, [kind |-> "destroy", self |-> self,
                                             fn |-> cb])]
        victim == MapGet(h1.objects, VictimId)
    IN  IF cb = "destroyA" /\ victim # Null /\ victim # self
        THEN [DestroyOf(h1, victim) EXCEPT !.nested = @ \cup {victim}]
        ELSE IF cb = "markSelf"
        THEN [h1 EXCEPT !.objs = SetVariableOf(@, self, "k",
                                     IF GetVariableOf(@, self, "k") = Undefined
                                     THEN "v1" ELSE "v2")]
        ELSE h1

\* a destroy() that leaves the engine's entry for the id in place
DestroyOf_KeepsEntry(h, o) ==
    LET cb == h.objs[o].onDestroy
        h1 == IF cb = NoCallback THEN h ELSE DestroyCallback(h, cb, o)
    IN  [h1 EXCEPT !.objs[o].observed = {},
                   !.objs[o].attached = FALSE,
                   !.objs[o].destroyedRegistered =
                        @ \/ MapGet(h.objects, h.objs[o].id) = o]

\* destroy(): the callback, the observer disconnected, the id unregistered,
\* the container removed.  h is a heap like StepHeap.
DestroyOf(h, o) ==
    LET cb == h.objs[o].onDestroy
        h1 == IF cb = NoCallback THEN h ELSE DestroyCallback(h, cb, o)
    IN  [h1 EXCEPT !.objs[o].observed = {},
                   !.objects = MapDelete(@, h.objs[o].id),
                   !.objs[o].attached = FALSE,
                   !.objs[o].destroyedRegistered =
                        @ \/ MapGet(h.objects, h.objs[o].id) = o]

-----------------------------------------------------------------------------
(* Further operations of the host, and the browser's observer callback *)

\* an unregisterObject that destroys the object it removes
UnregisterObject_Destroys(id) ==
    LET h0 == StepHeap
        h == IF MapHas(objects, id) THEN DestroyOf(h0, MapGet(objects, id)) ELSE h0
    IN  /\ objs' = h.objs
        /\ objects' = MapDelete(objects, id)
        /\ calls' = h.calls
        /\ pre' = [objs |-> objs, objects |-> objects]
        /\ op' = [name |-> "unregisterObject", id |-> id]
        /\ ret' = Null
        /\ UNCHANGED <<camera, mouse, frames, now, lastTime, rafId, sceneAttached>>

\* unregisterObject(id)
UnregisterObject(id) ==
    /\ objects' = MapDelete(objects, id)
    /\ pre' = [objs |-> objs, objects |-> objects]
    /\ op' = [name |-> "unregisterObject", id |-> id]
    /\ ret' = Null
    /\ calls' = <<>>
    /\ UNCHANGED <<objs, camera, mouse, frames, now, lastTime, rafId, sceneAttached>>

AddClass(o, c) ==
    /\ objs' = AddClassOf(objs, o, c)
    /\ pre' = [objs |-> objs, objects |-> objects]
    /\ op' = [name |-> "addClass", o |-> o, tag |-> c]
    /\ ret' = o
    /\ calls' = <<>>
    /\ UNCHANGED <<objects, camera, mouse, frames, now, lastTime, rafId, sceneAttached>>

OnCollisionTrigger(o, c, fn) ==
    /\ objs' = [OnCollisionTriggerOf(objs, sceneAttached, o, c, fn)
                   EXCEPT ![o].replaced =
                       IF objs[o].collisionHandlers[c] \in {NoCallback, fn} THEN @
                       ELSE @ \cup {<<c, objs[o].collisionHandlers[c]>>}]
    /\ pre' = [objs |-> objs, objects |-> objects]
    /\ op' = [name |-> "onCollisionTrigger", o |-> o, tag |-> c, fn |-> fn]
    /\ ret' = o
    /\ calls' = <<>>
    /\ UNCHANGED <<objects, camera, mouse, frames, now, lastTime, rafId, sceneAttached>>

\* this.#functions.set(name, fn)
CreateFunctionOf(os, o, name, fn) == [os EXCEPT ![o].functions[name] = fn]

\* callFunction(name, params): the calls it makes; an error thrown by fn is
\* caught and logged
CallFunctionOf(os, o, name) ==
    LET fn == os[o].functions[name]
    IN  IF fn # NoCallback
        THEN <<[kind |-> "function", self |-> o, name |-> name, fn |-> fn]>>
        ELSE <<>>

\* getVariable(key)
GetVariable(o, k) ==
    /\ ret' = GetVariableOf(objs, o, k)
    /\ pre' = [objs |-> objs, objects |-> objects]
    /\ op' = [name |-> "getVariable", o |-> o, key |-> k]
    /\ calls' = <<>>
    /\ UNCHANGED <<objs, objects, camera, mouse, frames, now, lastTime, rafId,
                   sceneAttached>>

\* createFunction(name, fn)
CreateFunction(o, name, fn) ==
    /\ objs' = CreateFunctionOf(objs, o, name, fn)
    /\ pre' = [objs |-> objs, objects |-> objects]
    /\ op' = [name |-> "createFunction", o |-> o, fname |-> name, fn |-> fn]
    /\ ret' = o
    /\ calls' = <<>>
    /\ UNCHANGED <<objects, camera, mouse, frames, now, lastTime, rafId, sceneAttached>>

\* callFunction(name): the host functions only record the call
CallFunction(o, name) ==
    /\ calls' = CallFunctionOf(objs, o, name)
    /\ pre' = [objs |-> objs, objects |-> objects]
    /\ op' = [name |-> "callFunction", o |-> o, fname |-> name]
    /\ ret' = o
    /\ UNCHANGED <<objs, objects, camera, mouse, frames, now, lastTime, rafId,
                   sceneAttached>>

\* setVariable(key, value)
SetVariable(o, k, v) ==
    /\ objs' = SetVariableOf(objs, o, k, v)
    /\ pre' = [objs |-> objs, objects |-> objects]
    /\ op' = [name |-> "setVariable", o |-> o, key |-> k, value |-> v]
    /\ ret' = o
    /\ calls' = <<>>
    /\ UNCHANGED <<objects, camera, mouse, frames, now, lastTime, rafId, sceneAttached>>

\* onDestroy(callback)
OnDestroy(o, fn) ==
    /\ objs' = [objs EXCEPT ![o].onDestroy = fn]
    /\ pre' = [objs |-> objs, objects |-> objects]
    /\ op' = [name |-> "onDestroy", o |-> o, fn |-> fn]
    /\ ret' = o
    /\ calls' = <<>>
    /\ UNCHANGED <<objects, camera, mouse, frames, now, lastTime, rafId, sceneAttached>>

\* destroy()
Destroy(o) ==
    LET h == DestroyOf(StepHeap, o) IN
    /\ objs' = h.objs
    /\ objects' = h.objects
    /\ calls' = h.calls
    /\ pre' = [objs |-> objs, objects |-> objects]
    /\ op' = [name |-> "destroy", o |-> o]
    /\ ret' = Null
    /\ UNCHANGED <<camera, mouse, frames, now, lastTime, rafId, sceneAttached>>

\* a forEach that steps through the entries by their index in the live list
RECURSIVE ForEachDestroy_ByIndex(_, _)
ForEachDestroy_ByIndex(h, i) ==
    IF i > Len(h.objects) THEN h
    ELSE LET e == h.objects[i]
             h1 == DestroyOf([h EXCEPT !.visited = Append(@, e[2])], e[2])
         IN  ForEachDestroy_ByIndex(h1, i + 1)

\* the objects.forEach((obj) => obj.destroy()) of the engine's destroy():
\* a Map iteration goes on with the next entry when the current one is
\* deleted, and never comes to an entry deleted before its turn
RECURSIVE ForEachDestroy(_, _)
ForEachDestroy(h, i) ==
    IF i > Len(h.objects) THEN h
    ELSE LET e == h.objects[i]
             h1 == DestroyOf([h EXCEPT !.visited = Append(@, e[2])], e[2])
         IN  ForEachDestroy(h1, IF i <= Len(h1.objects) /\ h1.objects[i] = e
                                THEN i + 1 ELSE i)

\* an engine destroy() that clears the directory and destroys no object
EngineDestroy_OnlyClears ==
    /\ frames' = IF rafId >= 0
                 THEN CancelAnimationFrame([frames |-> frames], rafId).frames
                 ELSE frames
    /\ objects' = <<>>
    /\ calls' = <<>>
    /\ sceneAttached' = FALSE
    /\ pre' = [objs |-> objs, objects |-> objects]
    /\ op' = [name |-> "engineDestroy", after |-> op.name, scene |-> sceneAttached,
              frames |-> frames, visited |-> <<>>, nested |-> {}]
    /\ ret' = Null
    /\ UNCHANGED <<objs, camera, mouse, now, lastTime, rafId>>

\* an engine destroy() that leaves its animation frame request pending
EngineDestroy_KeepsLoop ==
    LET h == ForEachDestroy(StepHeap, 1) IN
    /\ frames' = frames
    /\ objs' = h.objs
    /\ objects' = <<>>
    /\ calls' = h.calls
    /\ sceneAttached' = FALSE
    /\ pre' = [objs |-> objs, objects |-> objects]
    /\ op' = [name |-> "engineDestroy", after |-> op.name, scene |-> sceneAttached,
              frames |-> frames, visited |-> h.visited, nested |-> h.nested]
    /\ ret' = Null
    /\ UNCHANGED <<camera, mouse, now, lastTime, rafId>>

\* CanvasEngine.destroy()
EngineDestroy ==
    LET h == ForEachDestroy(StepHeap, 1) IN
    /\ frames' = IF rafId >= 0
                 THEN CancelAnimationFrame([frames |-> frames], rafId).frames
                 ELSE frames
    /\ objs' = h.objs
    /\ objects' = <<>>
    /\ calls' = h.calls
    /\ sceneAttached' = FALSE
    /\ pre' = [objs |-> objs, objects |-> objects]
    /\ op' = [name |-> "engineDestroy", after |-> op.name, scene |-> sceneAttached,
              frames |-> frames, visited |-> h.visited, nested |-> h.nested]
    /\ ret' = Null
    /\ UNCHANGED <<camera, mouse, now, lastTime, rafId>>

\* the browser delivers the pending intersection entries of a's observer
ObserverCallback(a) ==
    LET targets == Changed(objs, sceneAttached, camera, a) IN
    /\ targets # {}
    /\ calls' = CallbackCalls(objs, objects, sceneAttached, camera, a, targets)
    /\ objs' = [objs EXCEPT ![a].observed =
                   {[target |-> e.target,
                     last |-> Report(objs, sceneAttached, camera, e.target)] : e \in @}]
    /\ pre' = [objs |-> objs, objects |-> objects]
    /\ op' = [name |-> "observerCallback", o |-> a]
    /\ ret' = Null
    /\ UNCHANGED <<objects, camera, mouse, frames, now, lastTime, rafId, sceneAttached>>

-----------------------------------------------------------------------------
(* The specifications.  Each draws the operations of one part of the       *)
(* engine from small input sets.                                           *)

Ordinary == Handles \ {camera}

\* the registry and the life cycle of its objects
Next ==
    \/ \E id \in Ids : CreateObject(id)
    \/ \E id \in Ids : GetCanvasObject(id)
    \/ \E id \in Ids : UnregisterObject(id)
    \/ \E o \in Ordinary, p \in RegPoints, s \in SpecSpeeds : SetMoveToPosition(o, p, s)
    \/ \E o \in Ordinary, fn \in Handlers : OnDestroy(o, fn)
    \/ \E o \in Ordinary : Destroy(o)

Spec == Init /\ [][Next]_vars

\* the engine as a whole: its camera, children of its objects, its shutdown
NextEngine ==
    \/ \E id \in Ids : CreateObject(id)
    \/ \E id \in Ids : GetCanvasObject(id)
    \/ GetCameraObject
    \/ \E o \in Handles, id \in ChildIds : CreateChild(o, id)
    \/ \E o \in Ordinary, fn \in Handlers : OnDestroy(o, fn)
    \/ \E o \in Handles : Destroy(o)
    \/ EngineDestroy

SpecEngine == Init /\ [][NextEngine]_vars

\* aiming: the angle between two points, and movements in the direction of
\* a point
NextAngle ==
    \/ \E id \in MoveIds : CreateObject(id)
    \/ \E o \in Ordinary, p \in AnglePoints : SetPosition(o, p)
    \/ \E p1 \in AnglePoints, p2 \in AnglePoints : GetAngleBetweenTwoPoints(p1, p2)
    \/ \E p1 \in AnglePoints, p2 \in AnglePoints : LegacyGetAngleBetweenTwoPoints(p1, p2)
    \/ \E o \in Ordinary, p \in AnglePoints, d \in Distances, s \in Speeds :
           MoveInDirectionOfPoint(o, p, d, s)

SpecAngle == Init /\ [][NextAngle]_vars

\* the directory: everything that enters, removes or destroys an object,
\* the camera and children included
NextDirectory ==
    \/ \E id \in Ids : CreateObject(id)
    \/ \E id \in Ids : UnregisterObject(id)
    \/ \E o \in Handles, id \in ChildIds : CreateChild(o, id)
    \/ \E o \in Ordinary : OnDestroy(o, "destroyA")
    \/ \E o \in Handles : Destroy(o)
    \/ EngineDestroy

SpecDirectory == Init /\ [][NextDirectory]_vars

\* the pointer: mouse events in the viewport, the camera moved, the query
NextPointer ==
    \/ \E cx \in PointerXs, cy \in PointerYs : MouseMove(cx, cy)
    \/ GetMousePosition
    \/ GetCameraObject
    \/ \E p \in CameraPoints : SetPosition(camera, p)

SpecPointer == Init /\ [][NextPointer]_vars

\* collisions: tags, subscriptions and the observer callback
NextCollide ==
    \/ \E id \in Ids : CreateObject(id)
    \/ \E o \in Ordinary, p \in SpecPoints : SetPosition(o, p)
    \/ \E o \in Ordinary, c \in CollideTags : AddClass(o, c)
    \/ \E o \in Ordinary, c \in CollideTags, fn \in Handlers : OnCollisionTrigger(o, c, fn)
    \/ \E o \in Ordinary : Destroy(o)
    \/ \E a \in Handles : ObserverCallback(a)

SpecCollide == Init /\ [][NextCollide]_vars

\* subscriptions: two tags, two handlers, and the observer callback; the
\* host tags the objects it created as "b" and subscribes the others
NextSubscribe ==
    \/ \E id \in Ids : CreateObject(id)
    \/ \E o \in Ordinary, c \in Tags : objs[o].id \in TaggedIds /\ AddClass(o, c)
    \/ \E o \in Ordinary, c \in Tags, fn \in SubscribeHandlers :
           objs[o].id \notin TaggedIds /\ OnCollisionTrigger(o, c, fn)
    \/ \E a \in Handles : ObserverCallback(a)

SpecSubscribe == Init /\ [][NextSubscribe]_vars


\* the movement scenarios: one id, every movement operation, the clock
NextMove ==
    \/ \E d \in ClockSteps : Advance(d)
    \/ \E id \in MoveIds : CreateObject(id)
    \/ Frame
    \/ \E o \in Ordinary, p \in Points : SetPosition(o, p)
    \/ \E o \in Ordinary, p \in Points, s \in Speeds : SetMoveToPosition(o, p, s)
    \/ \E o \in Ordinary : SetStopMovement(o)

SpecMove == Init /\ [][NextMove]_vars

\* the movement scenarios under a browser that keeps delivering animation
\* frames (requestAnimationFrame, re-requested by every pass of #startLoop)
\* while performance.now() advances
LiveObjs == 1        \* CanvasObjects constructed besides the camera
LiveClockSteps == {1000}
LivePoints == {<<0, 0>>, <<100, 0>>}
LiveSpeeds == {50}

NextMoveLive ==
    \/ \E d \in LiveClockSteps : Advance(d)
    \/ \E id \in MoveIds : CreateObjectUpTo(id, LiveObjs)
    \/ Frame
    \/ \E o \in Ordinary, p \in LivePoints, s \in LiveSpeeds : SetMoveToPosition(o, p, s)
    \/ \E o \in Ordinary : SetStopMovement(o)
    \/ \E o \in Ordinary : Destroy(o)

\* a frame runs at a time the last frame has not seen.  Of the steps of
\* NextMoveLive only Frame changes lastTime, so <<FrameDue>>_lastTime is
\* <<Frame>>_lastTime.
FrameDue ==
    /\ EngineLoop(rafId) \in SeqToSet(frames.queue)
    /\ lastTime' = now

\* the clock moves on
ClockTicks ==
    \E d \in LiveClockSteps : now + d <= MaxSeconds * MsPerSec /\ now' = now + d

SpecMoveLive ==
    /\ Init
    /\ [][NextMoveLive]_vars
    /\ WF_lastTime(FrameDue)
    /\ WF_now(ClockTicks)

\* movements of the objects the directory does not hold, the camera and the
\* children, under the same browser
NextDetachedLive ==
    \/ \E d \in LiveClockSteps : Advance(d)
    \/ \E id \in MoveIds : CreateObject(id)
    \/ \E o \in Handles, id \in UnregisteredIds : CreateChild(o, id)
    \/ Frame
    \/ \E o \in Handles, p \in LivePoints, s \in LiveSpeeds : SetMoveToPosition(o, p, s)
    \/ \E o \in Handles : SetStopMovement(o)

SpecDetachedLive ==
    /\ Init
    /\ [][NextDetachedLive]_vars
    /\ WF_lastTime(FrameDue)
    /\ WF_now(ClockTicks)

\* the movement scenarios with objects destroyed under way
DestroyClockSteps == {1000}
DestroyPoints == {<<100, 0>>}
DestroySpeeds == {50}

NextMoveDestroy ==
    \/ \E d \in DestroyClockSteps : Advance(d)
    \/ \E id \in MoveIds : CreateObject(id)
    \/ Frame
    \/ \E o \in Ordinary, p \in DestroyPoints, s \in DestroySpeeds :
           SetMoveToPosition(o, p, s)
    \/ \E o \in Ordinary : Destroy(o)

SpecMoveDestroy == Init /\ [][NextMoveDestroy]_vars

\* collision targets the directory cannot resolve: a tagged child whose id
\* was never registered, or an object whose entry was removed
NextResolve ==
    \/ \E id \in MoveIds : CreateObject(id)
    \/ \E o \in Ordinary, id \in UnregisteredIds : CreateChild(o, id)
    \/ \E o \in Ordinary, c \in CollideTags : AddClass(o, c)
    \/ \E o \in Ordinary, c \in CollideTags, fn \in Handlers : OnCollisionTrigger(o, c, fn)
    \/ \E id \in MoveIds : UnregisterObject(id)
    \/ \E a \in Handles : ObserverCallback(a)

SpecResolve == Init /\ [][NextResolve]_vars

\* collisions among an object and children that were given its id
NextAlias ==
    \/ \E id \in MoveIds : CreateObject(id)
    \/ \E o \in Ordinary, id \in ChildIds : CreateChild(o, id)
    \/ \E o \in Ordinary, c \in CollideTags : AddClass(o, c)
    \/ \E o \in Ordinary, c \in CollideTags, fn \in Handlers : OnCollisionTrigger(o, c, fn)
    \/ \E a \in Handles : ObserverCallback(a)

SpecAlias == Init /\ [][NextAlias]_vars

\* the camera and the objects of the scene, each put at positions
NextCamera ==
    \/ \E id \in Ids : CreateObject(id)
    \/ GetCameraObject
    \/ \E o \in Handles, p \in CameraPoints : SetPosition(o, p)

SpecCamera == Init /\ [][NextCamera]_vars

\* movement in a direction, from the points the host puts the object at
NextDirection ==
    \/ \E id \in MoveIds : CreateObject(id)
    \/ \E o \in Ordinary, p \in Points : SetPosition(o, p)
    \/ \E o \in Ordinary, a \in Directions, d \in Distances, s \in Speeds :
           SetMoveInDirection(o, a, d, s)

SpecDirection == Init /\ [][NextDirection]_vars

\* shutdown and frames of a directory of three, with destroy callbacks that
\* destroy another object
NextShutdown ==
    \/ \E id \in ShutdownIds : CreateObjectUpTo(id, ShutdownObjs)
    \/ \E o \in Ordinary, fn \in ShutdownHandlers : OnDestroy(o, fn)
    \/ Frame
    \/ EngineDestroy

SpecShutdown == Init /\ [][NextShutdown]_vars

\* the frame loop and the shutdown: movements under way, frames, the clock,
\* and the engine's destroy() between any two of them
NextStop ==
    \/ \E d \in LiveClockSteps : Advance(d)
    \/ \E id \in MoveIds : CreateObjectUpTo(id, LiveObjs)
    \/ \E o \in Ordinary, p \in LivePoints, s \in LiveSpeeds : SetMoveToPosition(o, p, s)
    \/ Frame
    \/ EngineDestroy

SpecStop == Init /\ [][NextStop]_vars

\* the life of objects whose destroy callback notes its calls: destroyed by
\* the host, by the shutdown, and by the callback of another object
NextLifetime ==
    \/ \E id \in Ids : CreateObject(id)
    \/ \E o \in Ordinary, fn \in LifetimeHandlers : OnDestroy(o, fn)
    \/ \E o \in Ordinary : Destroy(o)
    \/ EngineDestroy

SpecLifetime == Init /\ [][NextLifetime]_vars

\* the variables and functions the host stores on an object
NextLogic ==
    \/ \E id \in MoveIds : CreateObject(id)
    \/ \E o \in Ordinary, k \in Keys, v \in Values : SetVariable(o, k, v)
    \/ \E o \in Ordinary, k \in Keys : GetVariable(o, k)
    \/ \E o \in Ordinary, n \in FunctionNames, fn \in Handlers : CreateFunction(o, n, fn)
    \/ \E o \in Ordinary, n \in FunctionNames : CallFunction(o, n)

SpecLogic == Init /\ [][NextLogic]_vars

\* construction: the host constructs the engine, for an id the document
\* holds or not, and uses the engine it got
NextConstruct ==
    \/ \E canvasId \in CanvasIds : Construct(canvasId)
    \/ \E id \in Ids : camera # Null /\ CreateObject(id)
    \/ camera # Null /\ GetCameraObject
    \/ \E cx \in PointerXs, cy \in PointerYs : MouseMove(cx, cy)
    \/ camera # Null /\ GetMousePosition
    \/ Frame

SpecConstruct == NotConstructed /\ [][NextConstruct]_vars

-----------------------------------------------------------------------------
(* The earlier CanvasObject and CanvasEngine: every movement is driven by *)
(* its own requestAnimationFrame loop, and setPosition sweeps for          *)
(* collisions before it returns.  A step of this program is carried out on *)
(* a record h of the heap: [objs, objects, frames, calls, now].            *)

MaxFrameIds == 5      \* requestAnimationFrame ids handed out
LegacyMaxObjs == 1    \* CanvasObjects constructed besides the camera

LegacyIds == {"a"}
LegacyPoints == {<<0, 0>>, <<100, 0>>}
LegacySpeeds == {50}
LegacyClockSteps == {1000}
\* host handlers: "h1" does nothing; "retargetOnce" is
\*   (self) => { if (self.getVariable("k") === null) {
\*                 self.setVariable("k", 1); self.setMoveToPosition(-100, 0, 50) } }
LegacyHandlers == {"h1", "retargetOnce"}
Retarget == [x |-> -100, y |-> 0, speed |-> 50]
RandomId == "random"              \* `${Math.random()}`

\* new CanvasObject(id, document, canvasEngine, parent, isChild, isCamera)
NewLegacyObject(id, isChild, isCamera) ==
    [ id |-> id,
      isChild |-> isChild,
      isCamera |-> isCamera,
      pos |-> Origin,
      moveToPosition |-> NoMovement,
      onCollisionTrigger |-> <<>>,        \* <<key, func>> in insertion order
      variables |-> [k \in Keys |-> Null],
      size |-> [w |-> 0, h |-> 0],
      classes |-> <<>>,
      attached |-> TRUE ]

Heap == [objs |-> objs, objects |-> objects, frames |-> frames, calls |-> <<>>,
         now |-> now]

\* CanvasEngine.createObject(id): always constructs, and overwrites the entry
LegacyCreateObjectOf(h, id) ==
    [h EXCEPT !.objs = Append(@, NewLegacyObject(id, FALSE, FALSE)),
              !.objects = MapSet(@, id, Len(h.objs) + 1)]

\* document.getElementsByClassName(key), in document order
RECURSIVE GetElementsByClassName(_, _, _)
GetElementsByClassName(os, key, i) ==
    IF i > Len(os) THEN <<>>
    ELSE (IF os[i].attached /\ key \in SeqToSet(os[i].classes) THEN <<i>> ELSE <<>>)
         \o GetElementsByClassName(os, key, i + 1)

\* getBoundingClientRect() of the object's element, relative to the canvas:
\* the container is centred on (x, -y) by translate(-50%, -50%)
ClientRect(pos, size) ==
    [ x |-> RSub(pos.x, <<size.w, 2>>),
      y |-> RSub(RSub(R(0), pos.y), <<size.h, 2>>),
      width |-> R(size.w),
      height |-> R(size.h) ]

BoundingClientRect(os, o) == ClientRect(os[o].pos, os[o].size)

\* the if condition of the sweep: the distances of the two rectangles' x and
\* y (their left and top edges) against half the summed widths and heights
LegacyHit(rect, other) ==
    /\ RLeq(RAbs(RSub(rect.x, other.x)),
            RDiv(RAdd(rect.width, other.width), R(2)))
    /\ RLeq(RAbs(RSub(rect.y, other.y)),
            RDiv(RAdd(rect.height, other.height), R(2)))

\* this.#onCollisionTrigger[key]
HandlerOf(q, key) ==
    IF \E i \in 1..Len(q) : q[i][1] = key
    THEN q[CHOOSE i \in 1..Len(q) : q[i][1] = key][2]
    ELSE NoCallback

RECURSIVE LegacySetPositionOf(_, _, _, _)
RECURSIVE LegacySweepKeys(_, _, _)
RECURSIVE LegacySweepElements(_, _, _, _, _)
RECURSIVE LegacyHandler(_, _, _, _, _)
RECURSIVE LegacySetMoveToPositionOf(_, _, _, _, _)
RECURSIVE LegacyLoop(_, _, _)

\* the host function registered as func, called as func(self, other)
LegacyHandler(h, func, self, other, key) ==
    LET h1 == [h EXCEPT !.calls = Append(@, [kind |-> "collision", self |-> self,
                                             other |-> other, tag |-> key,
                                             fn |-> func])]
    IN  IF func = "retargetOnce" /\ h1.objs[self].variables["k"] = Null
        THEN LegacySetMoveToPositionOf([h1 EXCEPT !.objs[self].variables["k"] = 1],
                                       self, R(Retarget.x), R(Retarget.y),
                                       Retarget.speed)
        ELSE h1

\* the for loop over getElementsByClassName(key) of setPosition
LegacySweepElements(h, o, key, rect, elementIndex) ==
    LET els == GetElementsByClassName(h.objs, key, 1)
    IN  IF elementIndex > Len(els) THEN h
        ELSE LET b == els[elementIndex]
                 other == BoundingClientRect(h.objs, b)
                 hit == LegacyHit(rect, other)
                 found == MapGet(h.objects, h.objs[b].id)
                 h1 == IF found = Null THEN LegacyCreateObjectOf(h, RandomId) ELSE h
                 otherObj == IF found = Null THEN Len(h.objs) + 1 ELSE found
                 h2 == IF hit
                       THEN LegacyHandler(h1, HandlerOf(h1.objs[o].onCollisionTrigger, key),
                                          o, otherObj, key)
                       ELSE h
             IN  LegacySweepElements(h2, o, key, rect, elementIndex + 1)

\* Object.keys(this.#onCollisionTrigger).forEach(...)
LegacySweepKeys(h, o, keys) ==
    IF keys = <<>> THEN h
    ELSE LegacySweepKeys(
             LegacySweepElements(h, o, Head(keys), BoundingClientRect(h.objs, o), 1),
             o, Tail(keys))

\* setPosition(x, y): it keeps #moveToPosition and sweeps before it returns
LegacySetPositionOf(h, o, x, y) ==
    LET h1 == [h EXCEPT !.objs[o].pos = Point(x, y)]
        q == h1.objs[o].onCollisionTrigger
    IN  LegacySweepKeys(h1, o, [i \in 1..Len(q) |-> q[i][1]])

\* the closure loop of setMoveToPosition
LegacyLoop(h, o, timeTillDestination) ==
    LET m == h.objs[o].moveToPosition
    IN  IF m = NoMovement THEN h
        ELSE LET timepassed == RDiv(R(h.now - m.timestamp), R(MsPerSec))
             IN  IF RLt(timeTillDestination, timepassed)
                 THEN LET h1 == LegacySetPositionOf(h, o, m.targetX, m.targetY)
                      IN  CancelAnimationFrame(h1, h1.objs[o].moveToPosition.loopId)
                 ELSE LET cx == RAdd(m.startX,
                                  RDiv(RMul(RSub(m.targetX, m.startX), timepassed),
                                       timeTillDestination))
                          cy == RAdd(m.startY,
                                  RDiv(RMul(RSub(m.targetY, m.startY), timepassed),
                                       timeTillDestination))
                          h1 == LegacySetPositionOf(h, o, cx, cy)
                      IN  [RequestAnimationFrame(h1, o, timeTillDestination)
                             EXCEPT !.objs[o].moveToPosition.loopId = h1.frames.next]

\* setMoveToPosition(x, y, speed)
LegacySetMoveToPositionOf(h, o, x, y, speed) ==
    LET h1 == IF h.objs[o].moveToPosition # NoMovement
              THEN CancelAnimationFrame(h, h.objs[o].moveToPosition.loopId)
              ELSE h
        h2 == [h1 EXCEPT !.objs[o].moveToPosition =
                  [ startX |-> h.objs[o].pos.x, startY |-> h.objs[o].pos.y,
                    targetX |-> x, targetY |-> y, speed |-> speed,
                    timestamp |-> h.now, loopId |-> NoRaf ]]
        timeTillDestination ==
            RDiv(Hypot(RSub(h.objs[o].pos.x, x), RSub(h.objs[o].pos.y, y)), R(speed))
    IN  LegacyLoop(h2, o, timeTillDestination)

\* setStopMovement()
LegacySetStopMovementOf(h, o) ==
    LET h1 == IF h.objs[o].moveToPosition # NoMovement
              THEN CancelAnimationFrame(h, h.objs[o].moveToPosition.loopId)
              ELSE h
    IN  [h1 EXCEPT !.objs[o].moveToPosition = NoMovement]

\* the browser runs the callbacks that were in the list when the frame began,
\* skipping those cancelled meanwhile
RECURSIVE RunAnimationFrames(_, _)
RunAnimationFrames(h, ids) ==
    IF ids = <<>> THEN h
    ELSE LET live == SelectSeq(h.frames.queue, LAMBDA e : e.id = Head(ids))
         IN  IF live = <<>> THEN RunAnimationFrames(h, Tail(ids))
             ELSE RunAnimationFrames(
                      LegacyLoop(CancelAnimationFrame(h, Head(ids)), live[1].o,
                                 live[1].timeTillDestination),
                      Tail(ids))

InitLegacy ==
    /\ objs = <<NewLegacyObject("cam", FALSE, TRUE)>>
    /\ objects = <<>>
    /\ camera = 1
    /\ now = 0
    /\ lastTime = 0
    /\ rafId = NoRaf
    /\ sceneAttached = TRUE
    /\ pre = [objs |-> <<>>, objects |-> <<>>]
    /\ op = [name |-> "constructor"]
    /\ ret = Null
    /\ calls = <<>>
    /\ frames = [next |-> 1, queue |-> <<>>]
    /\ mouse = [x |-> 0, y |-> 0, seen |-> FALSE, listening |-> TRUE]

\* the step leaves the program in heap h
Becomes(h) ==
    /\ h.frames.next <= MaxFrameIds
    /\ Len(h.objs) <= LegacyMaxObjs + 1
    /\ objs' = h.objs
    /\ objects' = h.objects
    /\ frames' = h.frames
    /\ calls' = h.calls
    /\ pre' = [objs |-> objs, objects |-> objects]
    /\ UNCHANGED <<camera, mouse, now, lastTime, rafId, sceneAttached>>

LegacyCreateObject(id) ==
    /\ Becomes(LegacyCreateObjectOf(Heap, id))
    /\ op' = [name |-> "createObject", id |-> id]
    /\ ret' = Len(objs) + 1

LegacyAddClass(o, c) ==
    /\ Becomes([Heap EXCEPT !.objs[o].classes = ClassAdd(@, c)])
    /\ op' = [name |-> "addClass", o |-> o, tag |-> c]
    /\ ret' = o

LegacyOnCollisionTrigger(o, c, func) ==
    /\ Becomes([Heap EXCEPT !.objs[o].onCollisionTrigger =
                    IF HandlerOf(@, c) # NoCallback
                    THEN [i \in 1..Len(@) |-> IF @[i][1] = c THEN <<c, func>> ELSE @[i]]
                    ELSE Append(@, <<c, func>>)])
    /\ op' = [name |-> "onCollisionTrigger", o |-> o, tag |-> c, fn |-> func]
    /\ ret' = o

LegacySetPosition(o, p) ==
    /\ Becomes(LegacySetPositionOf(Heap, o, R(p[1]), R(p[2])))
    /\ op' = [name |-> "setPosition", o |-> o, x |-> R(p[1]), y |-> R(p[2])]
    /\ ret' = o

\* the host passes a positive speed and a target away from the object
LegacySetMoveToPosition(o, p, speed) ==
    /\ speed > 0
    /\ objs[o].pos # Point(R(p[1]), R(p[2]))
    /\ HypotExact(RSub(objs[o].pos.x, R(p[1])), RSub(objs[o].pos.y, R(p[2])))
    /\ Becomes(LegacySetMoveToPositionOf(Heap, o, R(p[1]), R(p[2]), speed))
    /\ op' = [name |-> "setMoveToPosition", o |-> o, x |-> R(p[1]), y |-> R(p[2]),
              speed |-> speed]
    /\ ret' = o

LegacySetStopMovement(o) ==
    /\ Becomes(LegacySetStopMovementOf(Heap, o))
    /\ op' = [name |-> "setStopMovement", o |-> o]
    /\ ret' = o

\* one animation frame of the window
LegacyFrame ==
    /\ frames.queue # <<>>
    /\ Becomes(RunAnimationFrames(Heap, [i \in 1..Len(frames.queue) |->
                                             frames.queue[i].id]))
    /\ op' = [name |-> "frame", ran |-> Len(frames.queue)]
    /\ ret' = Null

NextLegacy ==
    \/ \E d \in LegacyClockSteps : Advance(d)
    \/ \E id \in LegacyIds : LegacyCreateObject(id)
    \/ \E o \in Ordinary, c \in CollideTags : LegacyAddClass(o, c)
    \/ \E o \in Ordinary, c \in CollideTags, fn \in LegacyHandlers :
           LegacyOnCollisionTrigger(o, c, fn)
    \/ \E o \in Ordinary, p \in LegacyPoints : LegacySetPosition(o, p)
    \/ \E o \in Ordinary, p \in LegacyPoints, s \in LegacySpeeds :
           LegacySetMoveToPosition(o, p, s)
    \/ \E o \in Ordinary : LegacySetStopMovement(o)
    \/ LegacyFrame

SpecLegacy == InitLegacy /\ [][NextLegacy]_vars

\* destroy() of the earlier CanvasObject: this.#containerElement.remove()
LegacyDestroy(o) ==
    /\ Becomes([Heap EXCEPT !.objs[o].attached = FALSE])
    /\ op' = [name |-> "destroy", o |-> o]
    /\ ret' = Null

\* the earlier code with a moving object destroyed under way
NextLegacyDestroy ==
    \/ \E d \in LegacyClockSteps : Advance(d)
    \/ \E id \in LegacyIds : LegacyCreateObject(id)
    \/ \E o \in Ordinary, p \in LegacyPoints, s \in LegacySpeeds :
           LegacySetMoveToPosition(o, p, s)
    \/ \E o \in Ordinary : LegacyDestroy(o)
    \/ LegacyFrame

SpecLegacyDestroy == InitLegacy /\ [][NextLegacyDestroy]_vars

\* the overlap test of the earlier sweep on its own, over rectangles of
\* every centre and size of the sets below
OverlapCentres == {<<0, 0>>, <<10, 0>>, <<20, 0>>, <<0, 10>>, <<20, 20>>}
OverlapSizes == {<<0, 0>>, <<20, 20>>, <<40, 20>>}
OverlapRects ==
    {[pos |-> Point(R(c[1]), R(c[2])), size |-> [w |-> z[1], h |-> z[2]]] :
        c \in OverlapCentres, z \in OverlapSizes}

LegacyOverlapTest(a, b) ==
    /\ op' = [name |-> "overlapTest", a |-> a, b |-> b]
    /\ ret' = LegacyHit(ClientRect(a.pos, a.size), ClientRect(b.pos, b.size))
    /\ UNCHANGED <<objs, objects, camera, now, lastTime, rafId, sceneAttached,
                   mouse, frames, pre, calls>>

NextOverlap == \E a \in OverlapRects, b \in OverlapRects : LegacyOverlapTest(a, b)

SpecOverlap == InitLegacy /\ [][NextOverlap]_vars

-----------------------------------------------------------------------------
(* Registry claims, checked under Spec *)

\* C1: createObject(id) for a registered id returns the registered object,
\* constructs nothing, changes no object and leaves the directory as it was,
\* and the directory never holds two entries for one id.
C1_DuplicateCreateReturnsExisting ==
    /\ (op.name = "createObject" /\ MapHas(pre.objects, op.id))
          => /\ ret = MapGet(pre.objects, op.id)
             /\ objs = pre.objs
             /\ objects = pre.objects
    /\ \A i, j \in 1..Len(objects) : objects[i][1] = objects[j][1] => i = j

\* C1 witness: a duplicate createObject on an object that is moving, away from
\* the origin, with a destroy callback
C1_Witness ==
    /\ op.name = "createObject"
    /\ MapHas(pre.objects, op.id)
    /\ ret # Null
    /\ objs[ret].movement # NoMovement
    /\ objs[ret].onDestroy # NoCallback
    /\ Len(objects) = 2

\* C14: getCanvasObject(id) changes neither the directory nor any object;
\* it returns the object registered under id, or nothing when there is none.
C14_GetObjectIsPure ==
    op.name = "getCanvasObject" =>
        /\ objs = pre.objs
        /\ objects = pre.objects
        /\ calls = <<>>
        /\ IF op.id \in MapKeys(pre.objects)
           THEN \E i \in 1..Len(pre.objects) : pre.objects[i] = <<op.id, ret>>
           ELSE ret = Null

\* a lookup of an id that is not registered, while another id is
C14_Witness ==
    /\ op.name = "getCanvasObject"
    /\ op.id \notin MapKeys(pre.objects)
    /\ pre.objects # <<>>
    /\ ret = Null

\* C18: unregisterObject(id) removes the entry of id and nothing else: the
\* other entries keep their objects, no object changes, no callback runs;
\* for an id without an entry it changes nothing.
C18_UnregisterOnlyRemovesEntry ==
    op.name = "unregisterObject" =>
        /\ objs = pre.objs
        /\ calls = <<>>
        /\ MapKeys(objects) = MapKeys(pre.objects) \ {op.id}
        /\ \A k \in MapKeys(objects) : MapGet(objects, k) = MapGet(pre.objects, k)
        /\ op.id \notin MapKeys(pre.objects) => objects = pre.objects

\* the entry removed held a moving object with a destroy callback
C18_Witness ==
    /\ op.name = "unregisterObject"
    /\ MapHas(pre.objects, op.id)
    /\ LET o == MapGet(pre.objects, op.id)
       IN  /\ objs[o].movement # NoMovement
           /\ objs[o].onDestroy # NoCallback
           /\ objs[o].attached
    /\ Len(pre.objects) = 2

\* the call is repeated for the id it has just removed
C18_WitnessAgain ==
    /\ op.name = "unregisterObject"
    /\ op.id \notin MapKeys(pre.objects)
    /\ \E o \in Ordinary : objs[o].id = op.id /\ objs[o].attached

-----------------------------------------------------------------------------
(* Engine claims, checked under SpecEngine *)

\* the destroy callbacks the last step ran for object o
DestroyCallsFor(o) ==
    {i \in 1..Len(calls) : calls[i].kind = "destroy" /\ calls[i].self = o}

\* C13: the engine's destroy() destroys every object that was registered
\* (the destroy callback of each runs once), leaves the directory empty,
\* removes the scene and cancels the frame loop; called again right after,
\* it changes nothing and runs no callback.
C13_ShutdownDestroysAll ==
    op.name = "engineDestroy" =>
        /\ \A o \in MapValues(pre.objects) :
              /\ ~objs[o].attached
              /\ pre.objs[o].onDestroy # NoCallback =>
                    /\ Cardinality(DestroyCallsFor(o)) = 1
                    /\ \A i \in DestroyCallsFor(o) : calls[i].fn = pre.objs[o].onDestroy
        /\ objects = <<>>
        /\ ~sceneAttached
        /\ EngineLoop(rafId) \notin SeqToSet(frames.queue)
        /\ op.after = "engineDestroy" =>
              /\ objs = pre.objs
              /\ objects = pre.objects
              /\ calls = <<>>
              /\ sceneAttached = op.scene
              /\ frames = op.frames

\* a shutdown of two registered objects with destroy callbacks
C13_Witness ==
    /\ op.name = "engineDestroy"
    /\ Len(pre.objects) = 2
    /\ \A o \in MapValues(pre.objects) : pre.objs[o].onDestroy # NoCallback
    /\ Len(calls) = 2
    /\ op.scene

\* a second shutdown right after the first
C13_WitnessAgain ==
    op.name = "engineDestroy" /\ op.after = "engineDestroy"

\* C15: getCameraObject() returns the camera the constructor made, in every
\* state, and that object is the only camera there ever is.
C15_SingleCamera ==
    /\ camera = 1
    /\ objs[camera].isCamera
    /\ \A o \in Handles : objs[o].isCamera => o = camera
    /\ op.name = "getCameraObject" =>
          /\ ret = camera
          /\ objs = pre.objs
          /\ objects = pre.objects

\* the camera is asked for after an object was created and destroyed and the
\* camera itself got a child
C15_Witness ==
    /\ op.name = "getCameraObject"
    /\ ret = 1
    /\ \E o \in Ordinary : ~objs[o].attached
    /\ \E o \in Ordinary : objs[o].parent = camera

\* C20: createChild(id) leaves the directory as it was, and no child is
\* ever a value of the directory, so getCanvasObject never returns one.
C20_ChildIsNotRegistered ==
    /\ op.name = "createChild" =>
          /\ objects = pre.objects
          /\ ret \notin MapValues(objects)
          /\ objs[ret].isChild
          /\ objs[ret].parent = op.o
    /\ \A o \in MapValues(objects) : ~objs[o].isChild
    /\ op.name = "getCanvasObject" => (ret = Null \/ ~objs[ret].isChild)

\* a child is created under the id of a registered object, which stays the
\* object the directory holds for that id
C20_Witness ==
    /\ op.name = "createChild"
    /\ MapHas(objects, op.id)
    /\ MapGet(objects, op.id) # ret
    /\ objs[ret].id = op.id

-----------------------------------------------------------------------------
(* Pointer claims, checked under SpecPointer *)

\* the pointer in logical coordinates: origin at the centre of the viewport,
\* +Y up; m holds its position from the top-left corner
PointerLogical(m) == Point(R(m.x - ViewHalfW), R(ViewHalfH - m.y))

\* C16: getMousePosition() returns the pointer in logical coordinates plus
\* the position of the camera: (10, 0) for a pointer at the centre of the
\* viewport and the camera at (10, 0).
C16_PointerAddsCamera ==
    (op.name = "getMousePosition" /\ mouse.seen) =>
        /\ R(ret.x) = RAdd(PointerLogical(mouse).x, objs[camera].pos.x)
        /\ R(ret.y) = RAdd(PointerLogical(mouse).y, objs[camera].pos.y)

\* what the code returns instead: the pointer from the container's corner
C16_PointerIsRaw ==
    op.name = "getMousePosition" => ret = [x |-> mouse.x, y |-> mouse.y]

\* C17: before any mouse event was handled getMousePosition() returns (0, 0)
C17_PointerStartsAtOrigin ==
    (op.name = "getMousePosition" /\ ~mouse.seen) => ret = [x |-> 0, y |-> 0]

\* the query is made before any mouse event, the camera already moved
C17_Witness ==
    /\ op.name = "getMousePosition"
    /\ ~mouse.seen
    /\ objs[camera].pos # Origin
    /\ ret = [x |-> 0, y |-> 0]

-----------------------------------------------------------------------------
(* Collision claims, checked under SpecCollide *)

\* the rectangles of a and b overlap: |cA.x - cB.x| <= (wA + wB) / 2, and
\* the same for y
ClaimOverlap(os, a, b) ==
    /\ RLeq(RAbs(RSub(ScenePos(os, a).x, ScenePos(os, b).x)),
            <<os[a].size.w + os[b].size.w, 2>>)
    /\ RLeq(RAbs(RSub(ScenePos(os, a).y, ScenePos(os, b).y)),
            <<os[a].size.h + os[b].size.h, 2>>)

InvokedWith(a, b) ==
    \E i \in 1..Len(calls) :
        calls[i].kind = "collision" /\ calls[i].self = a /\ calls[i].other = b

\* the observer of a holds an unreported entry for b that will invoke a handler
PendingFor(a, b) ==
    /\ b \in Changed(objs, sceneAttached, camera, a)
    /\ IsIntersecting(objs, sceneAttached, camera, b)

\* C9: after destroy() of a registered object its id resolves to nothing, and
\* no collision handler of the destroyed object is invoked in any later step.
C9_DestroyedObjectIsSilent ==
    /\ (op.name = "destroy" /\ MapGet(pre.objects, pre.objs[op.o].id) = op.o)
          => MapGet(objects, objs[op.o].id) = Null
    /\ \A i \in 1..Len(calls) :
          calls[i].kind = "collision" => ~objs[calls[i].self].destroyedRegistered

\* the first half of C9 alone: destroy() of a registered object unregisters it
C9_DestroyUnregisters ==
    (op.name = "destroy" /\ MapGet(pre.objects, pre.objs[op.o].id) = op.o)
        => MapGet(objects, objs[op.o].id) = Null

\* C10: whenever a position change leaves A, which subscribes to a tag
\* carried by a registered B, overlapping B, A's handler is invoked with
\* (A, B) (at the latest by the pending observer callback), whatever B
\* subscribes to; and a subscriber carries the tag it subscribes to.
C10_EachSideNotified ==
    /\ \A o \in Handles, t \in Tags :
          objs[o].collisionHandlers[t] # NoCallback => t \in SeqToSet(objs[o].classes)
    /\ op.name = "setPosition" =>
          \A b \in MapValues(objects) \ {op.o}, t \in Tags :
              (/\ op.o \in MapValues(objects)
               /\ objs[op.o].collisionHandlers[t] # NoCallback
               /\ t \in SeqToSet(objs[b].classes)
               /\ ClaimOverlap(objs, op.o, b))
                  => InvokedWith(op.o, b) \/ PendingFor(op.o, b)

\* the last part of C10 alone: a subscriber carries the tag
C10_SubscriberCarriesTag ==
    \A o \in Handles, t \in Tags :
        objs[o].collisionHandlers[t] # NoCallback => t \in SeqToSet(objs[o].classes)

\* the handler calls the last step made for the pair (a, b) and tag t
CallsFor(a, b, t) ==
    {i \in 1..Len(calls) : /\ calls[i].kind = "collision"
                           /\ calls[i].self = a
                           /\ calls[i].other = b
                           /\ calls[i].tag = t}

\* C11: every position change of A runs the collision sweep before it
\* returns: for each tag A subscribes to and each other registered object
\* carrying it whose rectangle overlaps A's, A's handler is invoked exactly
\* once with (A, other), on every such change while they overlap.
C11_PositionChangeSweeps ==
    op.name = "setPosition" =>
        \A b \in MapValues(objects) \ {op.o}, t \in Tags :
            (/\ op.o \in MapValues(objects)
             /\ objs[op.o].collisionHandlers[t] # NoCallback
             /\ t \in SeqToSet(objs[b].classes)
             /\ InDocument(objs, sceneAttached, b)
             /\ ClaimOverlap(objs, op.o, b))
                => Cardinality(CallsFor(op.o, b, t)) = 1

\* what the code does instead: setPosition invokes no handler at all
C11_SetPositionCallsNothing ==
    op.name = "setPosition" => calls = <<>>

-----------------------------------------------------------------------------
(* Subscription claims, checked under SpecSubscribe *)

\* C12: an object holds one handler per tag: onCollisionTrigger(tag, h2)
\* replaces the handler of tag and leaves the other tags' handlers alone,
\* and every handler call is made once, with the handler the tag has now.
C12_LatestHandlerReplaces ==
    /\ op.name = "onCollisionTrigger" =>
          objs[op.o].collisionHandlers =
              [pre.objs[op.o].collisionHandlers EXCEPT ![op.tag] = op.fn]
    /\ \A i \in 1..Len(calls) :
          calls[i].kind = "collision" =>
              /\ calls[i].fn = objs[calls[i].self].collisionHandlers[calls[i].tag]
              /\ Cardinality(CallsFor(calls[i].self, calls[i].other, calls[i].tag)) = 1

\* the observer callback calls h2 for a tag whose handler h1 it replaced,
\* while the object holds a handler for the other tag as well
C12_Witness ==
    /\ op.name = "observerCallback"
    /\ \E i \in 1..Len(calls) :
          /\ calls[i].fn = "h2"
          /\ <<calls[i].tag, "h1">> \in objs[calls[i].self].replaced
          /\ \E t \in Tags \ {calls[i].tag} :
                objs[calls[i].self].collisionHandlers[t] # NoCallback

-----------------------------------------------------------------------------
(* Movement claims of the earlier CanvasObject, checked under SpecLegacy *)

\* the loops that will move o at the next animation frame
UpdatersOf(o) == {i \in 1..Len(frames.queue) : frames.queue[i].o = o}

\* C8: in every reachable state each object has at most one movement record
\* and at most one frame-driven updater, also after a re-target, one issued
\* from a collision handler inside a movement step included.
C8_SingleUpdater ==
    \A o \in Handles : Cardinality(UpdatersOf(o)) <= 1

\* C8 without handlers that re-target: one updater at most
C8_SingleUpdaterWithoutHandlerRetarget ==
    \A o \in Handles :
        objs[o].variables["k"] = Null => Cardinality(UpdatersOf(o)) <= 1

-----
(* Movement claims, checked under SpecMove *)

Moving(rec) == rec.movement # NoMovement
Registered(o) == o \in MapValues(objects)
WasRegistered(o) == o \in MapValues(pre.objects)

\* duration = distance(start, target) / speed, as the specification states it
ClaimDuration(m) ==
    RDiv(Hypot(RSub(m.targetX, m.startX), RSub(m.targetY, m.startY)), R(m.speed))

\* seconds since the movement was started
ClaimElapsed(m) == <<now - m.startTime, MsPerSec>>

\* start + (target - start) * elapsed / duration, cross-multiplied
OnSegmentAt(m, p) ==
    /\ RMul(RSub(p.x, m.startX), ClaimDuration(m))
         = RMul(RSub(m.targetX, m.startX), RNorm(now - m.startTime, MsPerSec))
    /\ RMul(RSub(p.y, m.startY), ClaimDuration(m))
         = RMul(RSub(m.targetY, m.startY), RNorm(now - m.startTime, MsPerSec))

\* C2: a frame tick at which the time elapsed since the moveTo is >= duration
\* (equality included) puts the object exactly on the target and clears the
\* movement.
C2_ArrivalSnapsToTarget ==
    op.name = "frame" =>
        \A o \in MapValues(pre.objects) :
            LET m == pre.objs[o].movement IN
            (Moving(pre.objs[o]) /\ RLeq(ClaimDuration(m), ClaimElapsed(m)))
                => /\ objs[o].pos = Point(m.targetX, m.targetY)
                   /\ objs[o].movement = NoMovement

\* C2 witness: a tick at elapsed == duration exactly ended a movement
C2_Witness ==
    /\ op.name = "frame"
    /\ \E o \in MapValues(pre.objects) :
          /\ Moving(pre.objs[o])
          /\ ClaimDuration(pre.objs[o].movement)
               = RNorm(now - pre.objs[o].movement.startTime, MsPerSec)
          /\ pre.objs[o].pos # objs[o].pos
          /\ objs[o].movement = NoMovement

\* C3: setPosition(x, y) leaves the object Idle at (x, y), and a frame tick
\* never moves an Idle object, so the position stays until a new moveTo.
C3_SetPositionClearsMovement ==
    /\ op.name = "setPosition" =>
          /\ objs[op.o].movement = NoMovement
          /\ objs[op.o].pos = Point(op.x, op.y)
    /\ op.name = "frame" =>
          \A o \in DOMAIN pre.objs :
              ~Moving(pre.objs[o]) => objs[o] = pre.objs[o]

\* C3 witness: setPosition was called on an object in flight
C3_Witness ==
    /\ op.name = "setPosition"
    /\ Moving(pre.objs[op.o])
    /\ Point(op.x, op.y) # Point(pre.objs[op.o].movement.targetX,
                                 pre.objs[op.o].movement.targetY)

\* C4: a frame tick at elapsed < duration puts the object at
\* start + (target - start) * elapsed / duration on each axis and keeps the
\* movement.
C4_LinearInterpolation ==
    op.name = "frame" =>
        \A o \in MapValues(pre.objects) :
            LET m == pre.objs[o].movement IN
            (Moving(pre.objs[o]) /\ RLt(ClaimElapsed(m), ClaimDuration(m)))
                => /\ OnSegmentAt(m, objs[o].pos)
                   /\ objs[o].movement = m

\* C4 witness: from (0,0), moveTo(100, 0, 50) is at (50, 0) after one second
C4_Witness ==
    /\ op.name = "frame"
    /\ \E o \in MapValues(pre.objects) :
          /\ Moving(pre.objs[o])
          /\ pre.objs[o].movement.startX = R(0)
          /\ pre.objs[o].movement.startY = R(0)
          /\ pre.objs[o].movement.targetX = R(100)
          /\ pre.objs[o].movement.targetY = R(0)
          /\ pre.objs[o].movement.speed = 50
          /\ ClaimDuration(pre.objs[o].movement) = R(2)
          /\ now - pre.objs[o].movement.startTime = 1000
          /\ objs[o].pos = Point(R(50), R(0))

\* a tick that moves the object along both axes at once
C4_Witness2D ==
    /\ op.name = "frame"
    /\ \E o \in MapValues(pre.objects) :
          /\ Moving(objs[o])
          /\ objs[o].pos = Point(R(15), R(20))

\* C5: moveTo during a movement replaces it by a segment that starts at the
\* object's position at the call, with elapsed time 0 and duration
\* distance(position, target) / speed; a tick at elapsed 0 leaves the object
\* where it was.
C5_RetargetRestartsSegment ==
    /\ (/\ op.name = "setMoveToPosition"
        /\ op.speed > 0
        /\ Point(op.x, op.y) # pre.objs[op.o].pos)
         => /\ objs[op.o].pos = pre.objs[op.o].pos
            /\ objs[op.o].movement =
                 [ startX |-> pre.objs[op.o].pos.x,
                   startY |-> pre.objs[op.o].pos.y,
                   targetX |-> op.x,
                   targetY |-> op.y,
                   speed |-> op.speed,
                   startTime |-> now,
                   duration |-> RDiv(Hypot(RSub(op.x, pre.objs[op.o].pos.x),
                                           RSub(op.y, pre.objs[op.o].pos.y)),
                                     R(op.speed)) ]
    /\ op.name = "frame" =>
          \A o \in MapValues(pre.objects) :
              (Moving(pre.objs[o]) /\ pre.objs[o].movement.startTime = now)
                  => objs[o].pos = pre.objs[o].pos

\* C5 witness: a re-target issued mid-flight, away from the original start
C5_Witness ==
    /\ op.name = "setMoveToPosition"
    /\ Moving(pre.objs[op.o])
    /\ pre.objs[op.o].pos # Point(pre.objs[op.o].movement.startX,
                                  pre.objs[op.o].movement.startY)
    /\ pre.objs[op.o].movement.startTime < now
    /\ Moving(objs[op.o])
    /\ objs[op.o].movement.startTime = now

\* C6: moveTo with speed <= 0, or to the current position, changes nothing.
C6_InvalidMoveIsNoOp ==
    (/\ op.name = "setMoveToPosition"
     /\ (op.speed <= 0 \/ Point(op.x, op.y) = pre.objs[op.o].pos))
        => objs = pre.objs /\ objects = pre.objects

\* C6 witness: a non-positive speed given to an object in flight
C6_Witness ==
    /\ op.name = "setMoveToPosition"
    /\ op.speed <= 0
    /\ Moving(pre.objs[op.o])
    /\ Point(op.x, op.y) # Point(pre.objs[op.o].movement.targetX,
                                 pre.objs[op.o].movement.targetY)

\* C7: stopMovement clears the movement and keeps the position; on an Idle
\* object it changes nothing; later frame ticks leave an Idle object in place.
C7_StopMovementKeepsPosition ==
    /\ op.name = "setStopMovement" =>
          /\ objs = [pre.objs EXCEPT ![op.o].movement = NoMovement]
          /\ (~Moving(pre.objs[op.o]) => objs = pre.objs)
    /\ op.name = "frame" =>
          \A o \in MapValues(pre.objects) :
              ~Moving(pre.objs[o]) => objs[o].pos = pre.objs[o].pos

\* C7 witness: stopMovement on an object in flight, short of its target
C7_Witness ==
    /\ op.name = "setStopMovement"
    /\ Moving(pre.objs[op.o])
    /\ ~Moving(objs[op.o])
    /\ objs[op.o].pos # Point(pre.objs[op.o].movement.targetX,
                              pre.objs[op.o].movement.targetY)

-----------------------------------------------------------------------------
(* The frame tick and its deltaTime, checked under SpecMove *)

\* seconds of deltaTime the object's update() was given since the moveTo
ClaimFed(rec) == <<rec.fedMs, MsPerSec>>

C19_FrameUsesClock ==
    op.name = "frame" =>
        \A o \in MapValues(pre.objects) :
            LET m == pre.objs[o].movement
            IN  Moving(pre.objs[o]) =>
                    IF RLt(ClaimElapsed(m), ClaimDuration(m))
                    THEN OnSegmentAt(m, objs[o].pos) /\ objs[o].movement = m
                    ELSE /\ objs[o].movement = NoMovement
                         /\ objs[o].pos = Point(m.targetX, m.targetY)

-----------------------------------------------------------------------------
(* Unresolved collision targets, checked under SpecResolve *)

\* the <<target, tag>> matches the observer callback of a had to deliver in
\* heap os, m whose target id resolves to no registered object
UnresolvedMatches(os, m, scene, cam, a) ==
    {bt \in Changed(os, scene, cam, a) \X Tags :
        /\ IsIntersecting(os, scene, cam, bt[1])
        /\ bt[2] \in SeqToSet(os[bt[1]].classes)
        /\ os[a].collisionHandlers[bt[2]] # NoCallback
        /\ MapGet(m, os[bt[1]].id) = Null}

\* C21: a collision match that carries the subscribed tag and whose id
\* resolves to no registered object is surfaced as an inconsistency of its
\* own: it is not dropped, the handler is never given an object that is not
\* registered, and the directory stays as it was.
C21_UnresolvedMatchIsSurfaced ==
    op.name = "observerCallback" =>
        /\ \A bt \in UnresolvedMatches(pre.objs, pre.objects, sceneAttached, camera, op.o) :
              \E i \in 1..Len(calls) :
                  /\ calls[i].kind = "inconsistency"
                  /\ calls[i].self = op.o
                  /\ calls[i].tag = bt[2]
        /\ \A i \in 1..Len(calls) :
              calls[i].kind = "collision" => calls[i].other \in MapValues(pre.objects)
        /\ objects = pre.objects

\* what the code does instead: the match is dropped, nothing is reported for
\* it; no object is made up and the directory stays as it was
C21_UnresolvedMatchIsDropped ==
    op.name = "observerCallback" =>
        /\ \A bt \in UnresolvedMatches(pre.objs, pre.objects, sceneAttached, camera, op.o) :
              ~\E i \in 1..Len(calls) : calls[i].self = op.o /\ calls[i].tag = bt[2]
        /\ \A i \in 1..Len(calls) :
              /\ calls[i].kind = "collision"
              /\ calls[i].other \in MapValues(pre.objects)
        /\ objects = pre.objects /\ Len(objs) = Len(pre.objs)

\* an observer callback that had an unresolved match to deliver
C21_UnresolvedCase ==
    /\ op.name = "observerCallback"
    /\ UnresolvedMatches(pre.objs, pre.objects, sceneAttached, camera, op.o) # {}

-----------------------------------------------------------------------------
(* Construction, checked under SpecConstruct *)

\* C22: new CanvasEngine with an id that matches no element of the document
\* fails inside the constructor: no engine is returned, and there is no
\* camera, no frame request and no mousemove listener afterwards.
C22_MissingViewportFailsConstruction ==
    (op.name = "new CanvasEngine" /\ op.canvasId \notin DocumentIds) =>
        /\ ret = Null
        /\ camera = Null
        /\ objs = <<>>
        /\ frames.queue = <<>>
        /\ rafId = NoRaf
        /\ ~mouse.listening
        /\ ~sceneAttached

\* the constructor was called for an id the document does not hold
C22_Witness ==
    /\ op.name = "new CanvasEngine"
    /\ GetElementById(op.canvasId) = Null
    /\ ret = Null

-----------------------------------------------------------------------------
(* Operations on a destroyed object, checked under SpecCollide *)

\* the operations that change an object
Mutators == {"setPosition", "setMoveToPosition", "setMoveInDirection",
             "setStopMovement", "onCollisionTrigger", "setVariable", "destroy"}

\* destroy() has run on the object
Destroyed(rec) == ~rec.attached

\* C23: a mutator called on an object after its destroy() is a no-op: the
\* position, the movement and the subscriptions of the object stay as they
\* were, and the object gets no entry in the directory.
C23_MutatorAfterDestroyIsNoOp ==
    (op.name \in Mutators /\ Destroyed(pre.objs[op.o])) =>
        /\ objs[op.o].pos = pre.objs[op.o].pos
        /\ objs[op.o].movement = pre.objs[op.o].movement
        /\ objs[op.o].collisionHandlers = pre.objs[op.o].collisionHandlers
        /\ objs[op.o].observed = pre.objs[op.o].observed
        /\ op.o \notin MapValues(objects)

\* the last part of C23 alone: a destroyed object is in no directory entry
C23_DestroyedIsNotRegistered ==
    \A o \in Handles : Destroyed(objs[o]) => o \notin MapValues(objects)

-----------------------------------------------------------------------------
(* Stored variables and functions, checked under SpecLogic *)

\* C24: getVariable of a key that was never set returns the absent value;
\* callFunction of a name that was never created calls nothing, changes
\* nothing and returns normally; getVariable(k) returns the value of the
\* latest setVariable(k, v), and setVariable leaves the other keys alone.
\* Stated step by step: a new object has no key set, only setVariable(k, v)
\* changes a key, and it changes k to v and nothing else.
C24_LookupsOfStoredData ==
    /\ \A o \in Handles \ DOMAIN pre.objs : \A k \in Keys : objs[o].vars[k] = Undefined
    /\ op.name = "setVariable" =>
          /\ objs[op.o].vars[op.key] = op.value
          /\ \A k \in Keys \ {op.key} : objs[op.o].vars[k] = pre.objs[op.o].vars[k]
    /\ op.name \notin {"setVariable", "constructor"} =>
          \A o \in DOMAIN pre.objs : objs[o].vars = pre.objs[o].vars
    /\ op.name = "getVariable" =>
          /\ ret = pre.objs[op.o].vars[op.key]
          /\ objs = pre.objs /\ objects = pre.objects /\ calls = <<>>
    /\ (op.name = "callFunction" /\ pre.objs[op.o].functions[op.fname] = NoCallback) =>
          /\ calls = <<>>
          /\ objs = pre.objs /\ objects = pre.objects
          /\ ret = op.o

\* callFunction of a name never created, on an object that holds another
\* function, one variable set twice and one never set
C24_Witness ==
    /\ op.name = "callFunction"
    /\ objs[op.o].functions[op.fname] = NoCallback
    /\ \E n \in FunctionNames : objs[op.o].functions[n] # NoCallback
    /\ objs[op.o].vars["k"] = "v2"
    /\ objs[op.o].vars["j"] = Undefined

\* getVariable of a key never set, another key being set
C24_WitnessAbsent ==
    /\ op.name = "getVariable"
    /\ ret = Undefined
    /\ \E k \in Keys : objs[op.o].vars[k] # Undefined

\* getVariable returns the second value given to a key
C24_WitnessLatest ==
    /\ op.name = "getVariable"
    /\ ret = "v2"

-----------------------------------------------------------------------------
(* Iteration of the directory, checked under SpecShutdown *)

\* how often x occurs in the sequence q
Count(q, x) == Cardinality({i \in 1..Len(q) : q[i] = x})

\* C25: when a callback destroys an object while a frame or the shutdown
\* iterates the directory, every object that was registered when the pass
\* began and that no callback destroyed is visited exactly once, and no
\* object is visited twice.
C25_RemovalDuringIteration ==
    op.name \in {"engineDestroy", "frame"} =>
        /\ \A o \in MapValues(pre.objects) \ op.nested : Count(op.visited, o) = 1
        /\ \A o \in Handles : Count(op.visited, o) <= 1

\* a shutdown of three objects: the callback of the first destroys the
\* second, and the third is visited after that
C25_Witness ==
    /\ op.name = "engineDestroy"
    /\ Len(pre.objects) = 3
    /\ op.nested = {pre.objects[2][2]}
    /\ op.visited = <<pre.objects[1][2], pre.objects[3][2]>>
    /\ pre.objs[pre.objects[3][2]].onDestroy # NoCallback

-----------------------------------------------------------------------------
(* Movement in a direction, checked under SpecDirection *)

\* the target the convention 0 = up, 90 = right, clockwise gives
ClaimDirectionTarget(p, direction, distance) ==
    CASE direction = 0 -> Point(p.x, RAdd(p.y, R(distance)))
      [] direction = 90 -> Point(RAdd(p.x, R(distance)), p.y)
      [] direction = 180 -> Point(p.x, RSub(p.y, R(distance)))
      [] direction = 270 -> Point(RSub(p.x, R(distance)), p.y)

\* C26: setMoveInDirection(angle, distance, speed) from (x, y) hands
\* setMoveToPosition the target (x, y + distance) for angle 0,
\* (x + distance, y) for 90, (x, y - distance) for 180 and (x - distance, y)
\* for 270, and has exactly the effect of setMoveToPosition on that target.
C26_DirectionConvention ==
    op.name = "setMoveInDirection" =>
        LET c == ClaimDirectionTarget(pre.objs[op.o].pos, op.direction, op.distance)
        IN  /\ op.target = [x |-> Exact(c.x), y |-> Exact(c.y)]
            /\ objs = SetMoveToPositionOf(pre.objs, op.o, c.x, c.y, op.speed, now)

\* what the code does: the target is the claimed one up to the rounding
\* residue of Math.cos and Math.sin, and exactly the claimed one for 90
C26_DirectionUpToRounding ==
    op.name = "setMoveInDirection" =>
        LET c == ClaimDirectionTarget(pre.objs[op.o].pos, op.direction, op.distance)
        IN  /\ op.target.x.v = c.x
            /\ op.target.y.v = c.y
            /\ op.direction = 90 =>
                  /\ op.target = [x |-> Exact(c.x), y |-> Exact(c.y)]
                  /\ objs = SetMoveToPositionOf(pre.objs, op.o, c.x, c.y, op.speed, now)

\* a move straight up from the origin whose target is off the y axis
C26_ResidueCase ==
    /\ op.name = "setMoveInDirection"
    /\ op.direction = 0
    /\ pre.objs[op.o].pos = Origin
    /\ op.target.x = [v |-> R(0), k |-> R(100)]
    /\ objs[op.o].movement # NoMovement

-----------------------------------------------------------------------------
(* The camera and the presentation, checked under SpecCamera *)

\* the transform of the scene container: the camera's parent element
SceneTransform == objs[camera].parentTransform

\* C27: the camera offset is applied once, to the scene container, and
\* inversely: setting the camera to (cx, cy) offsets the scene by (-cx, +cy)
\* and changes no ordinary object's logical position or own placement; an
\* ordinary object at (x, y) is placed at the offset (x, -y) wherever the
\* camera is.
C27_CameraMovesScene ==
    /\ (op.name = "setPosition" /\ op.o = camera) =>
          /\ SceneTransform.x = RSub(R(0), op.x)
          /\ SceneTransform.y = op.y
          /\ \A o \in Ordinary : objs[o] = pre.objs[o]
    /\ SceneTransform \in {Untransformed,
                            Translate(-50, RSub(R(0), objs[camera].pos.x),
                                      objs[camera].pos.y)}
    /\ objs[camera].transform = Centred
    /\ \A o \in Ordinary :
          /\ objs[o].transform.x = objs[o].pos.x
          /\ objs[o].transform.y = RSub(R(0), objs[o].pos.y)
          /\ objs[o].parentTransform = Untransformed

\* the camera is put at (0, 10) while an object is at (10, 0) and another
\* at (0, 10)
C27_Witness ==
    /\ op.name = "setPosition"
    /\ op.o = camera
    /\ objs[camera].pos = Point(R(0), R(10))
    /\ pre.objs[camera].pos = Point(R(10), R(0))
    /\ \E o \in Ordinary : objs[o].pos = Point(R(10), R(0))
    /\ \E o \in Ordinary : objs[o].pos = Point(R(0), R(10))

-----------------------------------------------------------------------------
(* The overlap test of the collision detector, checked under SpecCollide *)

\* the <<target, tag>> pairs the observer callback of a was delivered in
\* heap os, m for which a holds a handler and the target is registered
DeliveredMatches(os, m, scene, cam, a) ==
    {bt \in Changed(os, scene, cam, a) \X Tags :
        /\ bt[2] \in SeqToSet(os[bt[1]].classes)
        /\ os[a].collisionHandlers[bt[2]] # NoCallback
        /\ MapGet(m, os[bt[1]].id) = bt[1]}

\* C28: the detector reports two rectangles as overlapping (it invokes the
\* handler for the pair) exactly when |cA.x - cB.x| <= (wA + wB) / 2 and
\* |cA.y - cB.y| <= (hA + hB) / 2.
C28_ReportsExactlyOverlap ==
    op.name = "observerCallback" =>
        \A bt \in DeliveredMatches(pre.objs, pre.objects, sceneAttached, camera, op.o) :
            InvokedWith(op.o, bt[1]) <=> ClaimOverlap(pre.objs, op.o, bt[1])

\* what the code does instead: it reports the target exactly when the
\* target's rectangle meets the browser viewport
C28_ReportsViewportIntersection ==
    op.name = "observerCallback" =>
        \A bt \in DeliveredMatches(pre.objs, pre.objects, sceneAttached, camera, op.o) :
            InvokedWith(op.o, bt[1])
                <=> IsIntersecting(pre.objs, sceneAttached, camera, bt[1])

\* the overlap test of the earlier CanvasObject, under SpecOverlap: it is the
\* claimed test only for rectangles of equal size, because it compares the
\* rectangles' left and top edges and not their centres
C28_LegacyTestIsCentreTest ==
    op.name = "overlapTest" =>
        (ret <=> /\ RLeq(RAbs(RSub(op.a.pos.x, op.b.pos.x)),
                         <<op.a.size.w + op.b.size.w, 2>>)
                 /\ RLeq(RAbs(RSub(op.a.pos.y, op.b.pos.y)),
                         <<op.a.size.h + op.b.size.h, 2>>))

C28_LegacyTestForEqualSizes ==
    op.name = "overlapTest" /\ op.a.size = op.b.size =>
        (ret <=> /\ RLeq(RAbs(RSub(op.a.pos.x, op.b.pos.x)),
                         <<op.a.size.w + op.b.size.w, 2>>)
                 /\ RLeq(RAbs(RSub(op.a.pos.y, op.b.pos.y)),
                         <<op.a.size.h + op.b.size.h, 2>>))

-----------------------------------------------------------------------------
(* Destroying a moving object, checked under SpecMoveDestroy *)

\* C29: destroy() on an object with an active movement cancels the movement:
\* after destroy the object has no active movement, and no later frame
\* changes its position.
C29_DestroyCancelsMovement ==
    /\ (op.name = "destroy" /\ pre.objs[op.o].movement # NoMovement) =>
            objs[op.o].movement = NoMovement
    /\ op.name = "frame" =>
            \A o \in DOMAIN pre.objs :
                Destroyed(pre.objs[o]) => objs[o].pos = pre.objs[o].pos

\* what holds: no frame changes the position of a destroyed object
C29_DestroyedIsNotMovedByFrames ==
    op.name = "frame" =>
        \A o \in DOMAIN pre.objs :
            Destroyed(pre.objs[o]) => objs[o].pos = pre.objs[o].pos

\* what the code does with the movement: destroy() leaves the record as it is
C29_DestroyKeepsMovement ==
    op.name = "destroy" => objs[op.o].movement = pre.objs[op.o].movement

\* a frame has passed over a destroyed object that still holds a movement
\* whose time has come
C29_FrameAfterDestroyCase ==
    /\ op.name = "frame"
    /\ \E o \in DOMAIN pre.objs :
           /\ Destroyed(pre.objs[o])
           /\ pre.objs[o].movement # NoMovement
           /\ now > pre.objs[o].movement.startTime

\* the same for the earlier CanvasObject, under SpecLegacyDestroy: its
\* destroy() removes the element only, and the object's animation frame loop
\* goes on moving it
C29_LegacyDestroyedIsNotMovedByFrames ==
    op.name = "frame" =>
        \A o \in DOMAIN pre.objs :
            Destroyed(pre.objs[o]) => objs[o].pos = pre.objs[o].pos

-----------------------------------------------------------------------------
(* Termination of movements, checked under SpecMoveLive *)

\* o is registered and holds a movement whose duration ends before the clock
\* of the scenarios stops
MovingToEnd(o) ==
    /\ o \in DOMAIN objs
    /\ MapGet(objects, objs[o].id) = o
    /\ objs[o].movement # NoMovement
    /\ RLeq(RAdd(R(objs[o].movement.startTime),
                 RMul(objs[o].movement.duration, R(MsPerSec))),
            R(MaxSeconds * MsPerSec))

\* a frame has just ended the movement of o at its target
EndedAtTarget(o) ==
    /\ op.name = "frame"
    /\ o \in DOMAIN pre.objs
    /\ pre.objs[o].movement # NoMovement
    /\ objs[o].movement = NoMovement
    /\ objs[o].pos = Point(pre.objs[o].movement.targetX, pre.objs[o].movement.targetY)

\* the host has just replaced or stopped the movement of o, or o is no
\* longer in the directory
Interrupted(o) ==
    \/ /\ op.name \in {"setPosition", "setMoveToPosition", "setStopMovement"}
       /\ op.o = o
       /\ objs[o].movement # pre.objs[o].movement
    \/ /\ o \in DOMAIN objs
       /\ MapGet(objects, objs[o].id) # o

\* C30: with frames delivered again and again and the clock advancing, every
\* movement of a registered object ends: unless the movement is replaced or
\* stopped or the object is destroyed first, a frame leaves the object
\* without a movement at the movement's target.
C30_MovementEventuallyEnds ==
    \A o \in 2..(LiveObjs + 1) : MovingToEnd(o) ~> (EndedAtTarget(o) \/ Interrupted(o))

\* a frame has ended a movement that began at an earlier time
C30_Witness ==
    \E o \in DOMAIN pre.objs :
        /\ EndedAtTarget(o)
        /\ pre.objs[o].movement.startTime < now
        /\ pre.objs[o].pos # objs[o].pos

-----------------------------------------------------------------------------
(* Movements of the camera and of children, checked under SpecDetachedLive *)

\* o is the camera or a child and holds a movement whose duration ends
\* before the clock of the scenarios stops
DetachedMovingToEnd(o) ==
    /\ o \in DOMAIN objs
    /\ objs[o].isCamera \/ objs[o].isChild
    /\ objs[o].movement # NoMovement
    /\ RLeq(RAdd(R(objs[o].movement.startTime),
                 RMul(objs[o].movement.duration, R(MsPerSec))),
            R(MaxSeconds * MsPerSec))

\* the host has just replaced or stopped the movement of o
Replaced(o) ==
    /\ op.name \in {"setPosition", "setMoveToPosition", "setStopMovement"}
    /\ op.o = o
    /\ objs[o].movement # pre.objs[o].movement

\* C31: a movement started on the camera or on a child is advanced by the
\* frames like any other: with frames delivered again and again and the
\* clock advancing, a frame leaves the object at the movement's target,
\* unless the host replaces or stops the movement first.
C31_DetachedMovementEnds ==
    \A o \in 1..(MaxObjs + 1) :
        DetachedMovingToEnd(o) ~> (EndedAtTarget(o) \/ Replaced(o))

\* what the code does: no frame changes the camera or a child in any way
C31_FramesPassOverDetached ==
    op.name = "frame" =>
        \A o \in DOMAIN pre.objs :
            (pre.objs[o].isCamera \/ pre.objs[o].isChild) => objs[o] = pre.objs[o]

\* a frame has passed after the time a movement of the camera or of a child
\* should have ended
C31_OverdueCase ==
    /\ op.name = "frame"
    /\ \E o \in DOMAIN objs :
           /\ DetachedMovingToEnd(o)
           /\ RLeq(objs[o].movement.duration, Elapsed(objs[o].movement, now))

-----------------------------------------------------------------------------
(* What destroy() removes from the directory, checked under SpecEngine *)

\* C32: destroy() removes from the directory only the object it is called
\* on: every entry that holds another object is still there afterwards,
\* also when the destroyed object is a child or was destroyed before and
\* the entry of its id holds a different, live object.
C32_DestroyRemovesOnlyItself ==
    op.name = "destroy" =>
        \A i \in 1..Len(pre.objects) :
            pre.objects[i][2] # op.o =>
                MapGet(objects, pre.objects[i][1]) = pre.objects[i][2]

\* what the code does: destroy() deletes the entry keyed by the object's id,
\* whichever object the entry holds
C32_DestroyDeletesItsKey ==
    op.name = "destroy" => objects = MapDelete(pre.objects, pre.objs[op.o].id)

\* destroy() was called on an object that is not in the directory while the
\* entry of its id held another object
C32_ForeignEntryCase ==
    /\ op.name = "destroy"
    /\ MapHas(pre.objects, pre.objs[op.o].id)
    /\ MapGet(pre.objects, pre.objs[op.o].id) # op.o

-----------------------------------------------------------------------------
(* A handler that re-targets inside a movement step, checked under SpecLegacy *)

\* the step that has just returned ran the re-targeting handler of o, and the
\* handler called setMoveToPosition
RetargetedInStep(o) ==
    /\ op.name \in {"frame", "setMoveToPosition"}
    /\ o \in DOMAIN pre.objs
    /\ pre.objs[o].variables["k"] = Null
    /\ \E i \in 1..Len(calls) :
           calls[i].kind = "collision" /\ calls[i].self = o
               /\ calls[i].fn = "retargetOnce"

\* the record of the new movement: toward the handler's target, from the
\* position the object has, begun now
RetargetRecord(o) ==
    /\ objs[o].moveToPosition # NoMovement
    /\ objs[o].moveToPosition.targetX = R(Retarget.x)
    /\ objs[o].moveToPosition.targetY = R(Retarget.y)
    /\ objs[o].moveToPosition.startX = objs[o].pos.x
    /\ objs[o].moveToPosition.startY = objs[o].pos.y
    /\ objs[o].moveToPosition.timestamp = now
    /\ objs[o].pos # Point(R(Retarget.x), R(Retarget.y))

\* C33: when a collision handler that runs inside a movement step calls
\* setMoveToPosition with a new target, the object has, when the step
\* returns, an active movement toward the new target that starts at the
\* position it had at the call with no time elapsed: the step neither
\* clears the new movement nor puts the object on the new target.
C33_RetargetInStepSurvives ==
    \A o \in Handles :
        RetargetedInStep(o) => RetargetRecord(o) /\ UpdatersOf(o) # {}

\* what holds: the record of the new movement is there when the step returns
C33_RetargetRecordIsKept ==
    \A o \in Handles : RetargetedInStep(o) => RetargetRecord(o)

\* the handler re-targeted inside the step of a frame
C33_FrameStepCase ==
    \E o \in Handles : RetargetedInStep(o) /\ op.name = "frame"

-----------------------------------------------------------------------------
(* Handlers called with the object itself, checked under SpecAlias *)

\* C34: a collision handler of an object is never invoked with the object
\* itself as the other party, although subscribing to a tag makes the
\* object carry the tag.
C34_NeverCalledWithItself ==
    \A i \in 1..Len(calls) :
        calls[i].kind = "collision" => calls[i].other # calls[i].self

\* what holds: no object observes its own element
C34_NeverObservesItself ==
    \A o \in Handles : \A e \in objs[o].observed : e.target # o

\* an object that carries the tag it subscribes to has had its observer
\* callback run
C34_SubscriberCarriesTagCase ==
    /\ op.name = "observerCallback"
    /\ \E c \in CollideTags :
           /\ pre.objs[op.o].collisionHandlers[c] # NoCallback
           /\ c \in SeqToSet(pre.objs[op.o].classes)

\* the same for the earlier CanvasObject, under SpecLegacy: its sweep goes
\* over every element of the class, the object's own included
C34_LegacyNeverCalledWithItself ==
    \A i \in 1..Len(calls) :
        calls[i].kind = "collision" => calls[i].other # calls[i].self

-----------------------------------------------------------------------------
(* Objects tagged after the subscription, checked under SpecCollide *)

\* the objects the collision detection of a examines
Watched(os, a) == {e.target : e \in os[a].observed}

\* C35: collision detection covers every object that carries the tag at the
\* time of the overlap: whenever A holds a handler for a tag and a registered
\* object B other than A carries the tag, the detection of A examines B, so
\* that an overlap of A and B invokes the handler with (A, B), also when B
\* was created or tagged only after A subscribed.
C35_LateTaggedAreCovered ==
    \A a \in MapValues(objects), b \in MapValues(objects), t \in CollideTags :
        (/\ b # a
         /\ objs[a].collisionHandlers[t] # NoCallback
         /\ ~Destroyed(objs[a])
         /\ t \in SeqToSet(objs[b].classes)
         /\ InDocument(objs, sceneAttached, b))
            => b \in Watched(objs, a)

\* what the code does: the objects that carry the tag when A subscribes are
\* examined from then on
C35_EarlierTaggedAreCovered ==
    op.name = "onCollisionTrigger" =>
        \A b \in DOMAIN objs \ {op.o} :
            (op.tag \in SeqToSet(objs[b].classes) /\ InDocument(objs, sceneAttached, b))
                => b \in Watched(objs, op.o)

\* and nothing but a subscription adds an object to those examined
C35_OnlySubscribingWatches ==
    op.name \in {"addClass", "createObject", "setPosition"} =>
        \A a \in DOMAIN pre.objs : Watched(objs, a) = Watched(pre.objs, a)

\* an object was tagged while another already held a handler for the tag
C35_LateTagCase ==
    /\ op.name = "addClass"
    /\ \E a \in MapValues(objects) \ {op.o} :
           pre.objs[a].collisionHandlers[op.tag] # NoCallback

-----------------------------------------------------------------------------
(* How often a destroy callback is called, checked under SpecLifetime *)

\* C36: the destroy callback of an object is invoked at most once over the
\* life of the object, whatever destroy() calls on the object and destroy()
\* calls on the engine are made: no object is handed to a callback that
\* finds it was called with the object before.
C36_DestroyCallbackAtMostOnce ==
    \A o \in Handles : GetVariableOf(objs, o, "k") # "v2"

\* what the code does: every destroy() of an object that holds a callback
\* calls it, whether the object was destroyed before or not
C36_EveryDestroyCallsBack ==
    (op.name = "destroy" /\ pre.objs[op.o].onDestroy # NoCallback) =>
        \E i \in 1..Len(calls) : calls[i].kind = "destroy" /\ calls[i].self = op.o

\* the shutdown alone calls no callback twice: an object that was not
\* destroyed before is called back once at most by a shutdown pass
C36_ShutdownCallsBackOnce ==
    op.name = "engineDestroy" =>
        \A o \in DOMAIN pre.objs :
            Cardinality({i \in 1..Len(calls) :
                            calls[i].kind = "destroy" /\ calls[i].self = o}) <= 1

\* a shutdown pass in which a destroy callback destroyed another object that
\* holds a callback itself
C36_NestedShutdownCase ==
    /\ op.name = "engineDestroy"
    /\ \E o \in op.nested : pre.objs[o].onDestroy # NoCallback

-----------------------------------------------------------------------------
(* Frames after the shutdown, checked under SpecStop *)

\* the engine's destroy() has run (it removes the scene, and nothing puts
\* the scene back)
ShutDown == ~sceneAttached

\* C37: after the engine's destroy() has returned no frame runs any more:
\* no request of the engine's loop is pending, the step that led to the
\* state was not a frame, and so no update() is called and no position is
\* changed by the loop, whenever destroy() was called.
C37_NoFrameAfterShutdown ==
    ShutDown =>
        /\ op.name # "frame"
        /\ \A i \in 1..Len(frames.queue) : frames.queue[i].o # Null
        /\ ~ENABLED Frame

\* the clock has passed the end of a movement that was started after the
\* shutdown, and the object has not moved
C37_Witness ==
    /\ ShutDown
    /\ op.name = "advance"
    /\ \E o \in MapValues(objects) :
           /\ objs[o].movement # NoMovement
           /\ RLeq(objs[o].movement.duration, Elapsed(objs[o].movement, now))
           /\ objs[o].pos = Point(objs[o].movement.startX, objs[o].movement.startY)

\* the shutdown came while a movement was under way, after a frame
C37_WitnessUnderWay ==
    /\ op.name = "engineDestroy"
    /\ op.after = "frame"
    /\ \E o \in MapValues(pre.objects) :
           /\ pre.objs[o].movement # NoMovement
           /\ pre.objs[o].pos # Point(pre.objs[o].movement.startX,
                                      pre.objs[o].movement.startY)

-----------------------------------------------------------------------------
(* The directory as a whole, checked under SpecDirectory *)

\* C38: in every state each entry of the directory, under key k, holds an
\* object whose getId() is k and that has not been destroyed, and neither
\* the camera nor a child is the value of an entry.
C38_DirectoryInvariant ==
    \A k \in MapKeys(objects) :
        LET o == MapGet(objects, k) IN
        /\ o \in Handles
        /\ objs[o].id = k
        /\ ~Destroyed(objs[o])
        /\ o # camera
        /\ ~objs[o].isCamera
        /\ ~objs[o].isChild

\* an entry is held while a destroyed object, registered earlier under the
\* same key, carries the id of the key
C38_Witness ==
    \E k \in MapKeys(objects) :
        \E d \in Handles : /\ objs[d].id = k
                            /\ Destroyed(objs[d])
                            /\ objs[d].destroyedRegistered

\* an entry is held while a child carries the id of its key, and the child
\* has been destroyed
C38_ChildCase ==
    \E k \in MapKeys(objects) :
        \E c \in Handles : /\ objs[c].id = k
                            /\ objs[c].isChild
                            /\ Destroyed(objs[c])

-----------------------------------------------------------------------------
(* The angle between two points, checked under SpecAngle *)

\* the direction of (dx, dy) in the convention of the engine, +Y up:
\* 0 up, 90 right, 180 down, 270 left
ConventionAngle(dx, dy) ==
    CASE RIsZero(dx) /\ RLt(R(0), dy) -> 0
      [] RIsZero(dy) /\ RLt(R(0), dx) -> 90
      [] RIsZero(dx) /\ RLt(dy, R(0)) -> 180
      [] RIsZero(dy) /\ RLt(dx, R(0)) -> 270

RSign(q) == IF RIsZero(q) THEN 0 ELSE IF RLt(q, R(0)) THEN -1 ELSE 1

\* the movement of o leads from its start toward the point to
MovesToward(rec, to) ==
    /\ rec.movement # NoMovement
    /\ RSign(RSub(rec.movement.targetX, rec.movement.startX)) =
           RSign(RSub(to.x, rec.movement.startX))
    /\ RSign(RSub(rec.movement.targetY, rec.movement.startY)) =
           RSign(RSub(to.y, rec.movement.startY))

\* the call was made with a positive distance and speed and with a point
\* that is not the position of the object
AimedAtAnotherPoint ==
    /\ op.name = "moveInDirectionOfPoint"
    /\ op.distance > 0
    /\ op.speed > 0
    /\ op.to # pre.objs[op.o].pos

\* C39: getAngleBetweenTwoPoints(x1, y1, x2, y2) returns the direction from
\* point 1 to point 2 in the convention of the engine with +Y up (0 when
\* point 2 is straight up, 90 to the right, 180 straight down, 270 to the
\* left), and setMoveInDirection with the returned angle moves the object
\* from point 1 toward point 2.
C39_AngleFollowsConvention ==
    /\ (op.name = "getAngleBetweenTwoPoints" /\ op.from # op.to) =>
          ret = ConventionAngle(RSub(op.to.x, op.from.x), RSub(op.to.y, op.from.y))
    /\ AimedAtAnotherPoint => MovesToward(objs[op.o], op.to)

\* what the code returns: the convention for points to the right and to
\* the left, the opposite direction for points straight up and straight
\* down, and 90 for two equal points
C39_AngleAsComputed ==
    op.name = "getAngleBetweenTwoPoints" =>
        LET dx == RSub(op.to.x, op.from.x)
            dy == RSub(op.to.y, op.from.y)
        IN  /\ (RIsZero(dy) /\ ~RIsZero(dx)) => ret = ConventionAngle(dx, dy)
            /\ (RIsZero(dx) /\ ~RIsZero(dy)) => ret = (ConventionAngle(dx, dy) + 180) % 360
            /\ (RIsZero(dx) /\ RIsZero(dy)) => ret = 90

\* with the returned angle the object moves toward a point to its right or
\* left, and away from a point straight above or below it
C39_MovesTowardOnlySideways ==
    AimedAtAnotherPoint =>
        (MovesToward(objs[op.o], op.to) <=>
            RIsZero(RSub(op.to.y, pre.objs[op.o].pos.y)))

\* the function of the earlier engine returns the convention's angle
C39_LegacyAngleFollowsConvention ==
    (op.name = "legacyGetAngleBetweenTwoPoints" /\ op.from # op.to) =>
        ret = ConventionAngle(RSub(op.to.x, op.from.x), RSub(op.to.y, op.from.y))

\* the angle of a point straight above was asked for, and an object was
\* sent in the direction of a point straight above it
C39_StraightUpCase ==
    \/ /\ op.name = "getAngleBetweenTwoPoints"
       /\ op.from.x = op.to.x
       /\ RLt(op.from.y, op.to.y)
    \/ /\ AimedAtAnotherPoint
       /\ op.to.x = pre.objs[op.o].pos.x
       /\ RLt(pre.objs[op.o].pos.y, op.to.y)

=============================================================================
